---- MODULE Spec2Model ----
(***************************************************************************)
(* The team builder of roco-kingdom-team-builder: the zustand builder      *)
(* store (builderStore), the MonsterInspector component that edits the     *)
(* active slot through setSlot, and the BuilderPage that validates the     *)
(* roster and issues the analyze / save / update requests.                 *)
(*                                                                         *)
(* JavaScript values are represented as follows.  An id is a natural       *)
(* number and 0 is the "unset" sentinel of the slot fields.  null (teamId, *)
(* magic_item_id, leaderTypeId) is Null and undefined (a slot's id) is     *)
(* Undefined, two negative numbers no id can take.  A slot is a record; a  *)
(* field that is undefined in JavaScript is a field missing from the       *)
(* record's domain.  An array is a function on 0..n-1.  A string that is   *)
(* trimmed or measured (the team name) is the sequence of its characters.  *)
(***************************************************************************)
EXTENDS Integers, Sequences, FiniteSets, TLC

VARIABLES
    slots,          \* builderStore.slots
    teamId,         \* builderStore.teamId
    name,           \* builderStore.name
    magic_item_id,  \* builderStore.magic_item_id
    analysis,       \* builderStore.analysis
    isAnalyzing,    \* builderStore.isAnalyzing
    activeIdx,      \* BuilderPage: useState activeIdx
    detailQ,        \* react-query cache: status of useMonsterDetail(m), per monster
    typesLoaded,    \* react-query cache: the types list has arrived
    movesLoaded,    \* react-query cache: the legacy move details that have arrived
    effectDeps,     \* MonsterInspector: dependency values of the last run of the leader effect
    lookups,        \* BuilderPage: the onSaveNew / onUpdateExisting calls awaiting qc.fetchQuery
    inFlight,       \* BuilderPage: the mutations (analyze, createTeam, updateTeam) that are pending
    sent,           \* the last request a mutation issued, with its payload
    movesTab,       \* dex MovesTab: moves.data, q, dq, typeId, cat and the list rendered
    teamsPage,      \* TeamsListPage: the ["teams"] query, the backend's teams, remove, rename
    lastOp,         \* the last handler that ran, with its outcome
    notice          \* the last message shown to the user (alert / serverErr / serverOk key)

submitVars == <<lookups, inFlight, sent>>
otherPages == <<movesTab, teamsPage>>
vars == <<slots, teamId, name, magic_item_id, analysis, isAnalyzing,
          activeIdx, detailQ, typesLoaded, movesLoaded, effectDeps,
          lookups, inFlight, sent, movesTab, teamsPage, lastOp, notice>>

(***************************************************************************)
(* Representation of null and undefined, and the size of the roster.       *)
(***************************************************************************)
Null == -1
Undefined == -2
NumSlots == 6
NumMoves == 4
MaxBoosted == 3
MaxNameLen == 16

(***************************************************************************)
(* Bounds of the model.                                                    *)
(***************************************************************************)
\* the user works on the slots 0..MaxActiveIdx
MaxActiveIdx == 1
\* the user picks moves for the positions 1..MaxPickPos
MaxPickPos == 2
\* the user clicks one of the first MaxOption options of a move select
MaxOption == 3
\* the user chooses talent values among the first 1+MaxTalentChoice entries of `allowed`
MaxTalentChoice == 1
\* at most MaxLookups calls of onSaveNew / onUpdateExisting await their lookup at a time
MaxLookups == 1

SlotIdx == 0 .. (NumSlots - 1)
Min(a, b) == IF a < b THEN a ELSE b

(***************************************************************************)
(* builderStore: emptySlot, mergeWithoutUndef, setSlot, loadFromTeam,      *)
(* reset.                                                                  *)
(***************************************************************************)
emptyTalent ==
    [hp_boost |-> 0, phy_atk_boost |-> 0, mag_atk_boost |-> 0,
     phy_def_boost |-> 0, mag_def_boost |-> 0, spd_boost |-> 0]

emptySlot ==
    [id |-> Undefined, monster_id |-> 0, personality_id |-> 0, legacy_type_id |-> 0,
     move1_id |-> 0, move2_id |-> 0, move3_id |-> 0, move4_id |-> 0,
     talent |-> emptyTalent]

moveKeys == <<"move1_id", "move2_id", "move3_id", "move4_id">>

\* A patch is [set |-> record of the keys given a value, undef |-> keys given as undefined].
Patch(setFields) == [set |-> setFields, undef |-> {}]

\* a merge that writes undefined values too: the field is lost
mergeWithUndef(base, patch) ==
    [k \in (DOMAIN base \cup DOMAIN patch.set) \ patch.undef |->
        IF k \in DOMAIN patch.set THEN patch.set[k] ELSE base[k]]

mergeWithoutUndef(base, patch) ==
    [k \in DOMAIN base \cup DOMAIN patch.set |->
        IF k \in DOMAIN patch.set THEN patch.set[k] ELSE base[k]]

setSlot(s, idx, patch) ==
    [i \in DOMAIN s \cup {idx} |->
        IF i = idx
        THEN mergeWithoutUndef(IF idx \in DOMAIN s THEN s[idx] ELSE emptySlot, patch)
        ELSE s[i]]

emptyRoster == [i \in SlotIdx |-> emptySlot]

\* the map of a saved record that does not keep the persisted id
slotOfSavedNoId(um) ==
    [id |-> Undefined, monster_id |-> um.monster.id, personality_id |-> um.personality.id,
     legacy_type_id |-> um.legacy_type.id,
     move1_id |-> um.move1.id, move2_id |-> um.move2.id,
     move3_id |-> um.move3.id, move4_id |-> um.move4.id,
     talent |-> um.talent]

\* um: a saved record (UserMonsterOut) -> a slot
slotOfSaved(um) ==
    [id |-> um.id, monster_id |-> um.monster.id, personality_id |-> um.personality.id,
     legacy_type_id |-> um.legacy_type.id,
     move1_id |-> um.move1.id, move2_id |-> um.move2.id,
     move3_id |-> um.move3.id, move4_id |-> um.move4.id,
     talent |-> [hp_boost |-> um.talent.hp_boost, phy_atk_boost |-> um.talent.phy_atk_boost,
                 mag_atk_boost |-> um.talent.mag_atk_boost, phy_def_boost |-> um.talent.phy_def_boost,
                 mag_def_boost |-> um.talent.mag_def_boost, spd_boost |-> um.talent.spd_boost]]

\* loadFromTeam without the padding loop
loadedSlotsUnpadded(team) ==
    LET kept == SubSeq(team.user_monsters, 1, Min(Len(team.user_monsters), NumSlots))
    IN  [i \in 0 .. (Len(kept) - 1) |-> slotOfSaved(kept[i + 1])]

\* the slots loadFromTeam builds: slice(0, 6), map, pad with emptySlot()
loadedSlots(team) ==
    LET kept == SubSeq(team.user_monsters, 1, Min(Len(team.user_monsters), NumSlots))
    IN  [i \in SlotIdx |-> IF i < Len(kept) THEN slotOfSaved(kept[i + 1]) ELSE emptySlot]

(***************************************************************************)
(* The data the API serves: the types list, the creature details and the   *)
(* saved teams.  Creature 1 is an ordinary creature, creature 2 a leader   *)
(* form; each has a move pool and a legacy move per type.  Moves 1..3 are  *)
(* pool moves, moves 5 and 6 legacy moves.                                  *)
(***************************************************************************)
TypeList ==
    <<[id |-> 1, name |-> "Fire"], [id |-> 2, name |-> "Water"], [id |-> 3, name |-> "Leader"]>>

TypeIds == {TypeList[i].id : i \in DOMAIN TypeList}

MonsterCatalog ==
    (1 :> [id |-> 1, is_leader_form |-> FALSE, move_pool |-> <<1, 2, 3>>,
           legacy_moves_by_type |-> (1 :> 5 @@ 2 :> 6)]) @@
    (2 :> [id |-> 2, is_leader_form |-> TRUE, move_pool |-> <<1, 2, 3>>,
           legacy_moves_by_type |-> (1 :> 5 @@ 3 :> 6)])

MonsterIds == DOMAIN MonsterCatalog

\* `detail` while the query has no data (detailQ.data === undefined)
NoDetail ==
    [id |-> 0, is_leader_form |-> FALSE, move_pool |-> <<>>, legacy_moves_by_type |-> <<>>]

PersonalityIds == {1}

Range(f) == {f[x] : x \in DOMAIN f}

AllLegacyMoveIds == UNION {Range(MonsterCatalog[m].legacy_moves_by_type) : m \in MonsterIds}

(***************************************************************************)
(* MonsterInspector: the values a render computes.                         *)
(***************************************************************************)
\* useMonsterDetail(monsterId).data
detailOf(slot, dq) ==
    IF slot.monster_id \in MonsterIds /\ dq[slot.monster_id] = "success"
    THEN MonsterCatalog[slot.monster_id]
    ELSE NoDetail

\* detailQ.isLoading
detailIsLoading(slot, dq) ==
    slot.monster_id \in MonsterIds /\ dq[slot.monster_id] # "success"

\* extractLegacyInfo(detail).byType and .idSet
legacyByType(detail) == detail.legacy_moves_by_type
legacyIdSetOf(detail) == Range(detail.legacy_moves_by_type)

\* useLegacyMap: moveIdToTypeId keeps the last type listed for a move
moveIdToTypeId(detail, moveId) ==
    LET byType == detail.legacy_moves_by_type
        ts == {t \in DOMAIN byType : byType[t] = moveId}
    IN  CHOOSE t \in ts : \A u \in ts : u <= t

\* useLegacyMap(detail).legacyMap: type id -> move, for the move details that arrived
useLegacyMap(detail, ml) ==
    LET byType == detail.legacy_moves_by_type
        ts == {t \in DOMAIN byType : byType[t] \in ml /\ moveIdToTypeId(detail, byType[t]) = t}
    IN  [t \in ts |-> byType[t]]

\* useLegacyMap(detail).loading
legacyLoading(detail, ml) ==
    \E mv \in Range(detail.legacy_moves_by_type) : mv \notin ml

isLeaderForm(detail) == detail.is_leader_form = TRUE

leaderTypeId(detail, tl) ==
    IF ~isLeaderForm(detail) THEN Null
    ELSE LET arr == IF tl THEN TypeList ELSE <<>>
             hits == {i \in DOMAIN arr : arr[i].name = "Leader"}
         IN  IF hits = {} THEN Null
             ELSE arr[CHOOSE i \in hits : \A j \in hits : i <= j].id

\* a set of numbers as the sequence of its elements in increasing order
RECURSIVE SortedSeq(_)
SortedSeq(S) ==
    IF S = {} THEN <<>>
    ELSE LET lo == CHOOSE x \in S : \A y \in S : x <= y
         IN  <<lo>> \o SortedSeq(S \ {lo})

(***************************************************************************)
(* MovesSection.                                                           *)
(***************************************************************************)
\* candidates: the options of a move select, legacy moves first
candidates(detail, legacyTypeId, ml) ==
    LET lmap == useLegacyMap(detail, ml)
        base == [i \in DOMAIN detail.move_pool |-> [move |-> detail.move_pool[i], isLegacy |-> FALSE]]
        types == SortedSeq(DOMAIN lmap)
        allLegacy == [i \in DOMAIN types |-> [move |-> lmap[types[i]], isLegacy |-> TRUE]]
    IN  IF legacyTypeId # 0
        THEN IF legacyTypeId \in DOMAIN lmap
             THEN <<[move |-> lmap[legacyTypeId], isLegacy |-> TRUE]>> \o base
             ELSE base
        ELSE IF ~legacyLoading(detail, ml) THEN allLegacy \o base ELSE base

selectedIds(slot) ==
    {slot[moveKeys[n]] : n \in 1 .. NumMoves} \ {0}

\* canPick without the duplicate test
canPickNoDupTest(slot, n, move, isLegacy, legacyIdSet) ==
    LET currentId == slot[moveKeys[n]]
        selectedLegacyIds == selectedIds(slot) \cap legacyIdSet
        alreadyHasLegacy == selectedLegacyIds # {} /\ selectedLegacyIds # {currentId}
    IN  IF ~isLegacy THEN TRUE ELSE ~alreadyHasLegacy

canPick(slot, n, move, isLegacy, legacyIdSet) ==
    LET currentId == slot[moveKeys[n]]
        selectedLegacyIds == selectedIds(slot) \cap legacyIdSet
        alreadyHasLegacy == selectedLegacyIds # {} /\ selectedLegacyIds # {currentId}
    IN  IF move # currentId /\ move \in selectedIds(slot) THEN FALSE
        ELSE IF ~isLegacy THEN TRUE
        ELSE ~alreadyHasLegacy

\* onPick without the inference of the legacy type
onPickPatchNoInfer(n, id, cands, legacyTypeId, lmap) ==
    Patch((moveKeys[n] :> id))

\* the patch onPick(n, id) passes to onChange
onPickPatch(n, id, cands, legacyTypeId, lmap) ==
    LET hits == {i \in DOMAIN cands : cands[i].move = id}
        found == cands[CHOOSE i \in hits : \A j \in hits : i <= j]
        ts == {t \in DOMAIN lmap : lmap[t] = id}
        newTypeId == CHOOSE t \in ts : \A u \in ts : t <= u
    IN  IF id = 0 THEN Patch((moveKeys[n] :> 0))
        ELSE IF hits = {} THEN Patch((moveKeys[n] :> id))
        ELSE IF found.isLegacy /\ legacyTypeId = 0 /\ ts # {}
             THEN Patch(("legacy_type_id" :> newTypeId) @@ (moveKeys[n] :> id))
             ELSE Patch((moveKeys[n] :> id))

(***************************************************************************)
(* MonsterInspector.handleLegacyChange and TalentsSection.setTalent.       *)
(***************************************************************************)
\* the move positions handleLegacyChange(newTypeId) clears
legacyClearKeys(slot, detail, newTypeId) ==
    LET byType == legacyByType(detail)
        allowedMoveId == IF newTypeId \in DOMAIN byType THEN byType[newTypeId] ELSE -1
    IN  {moveKeys[n] : n \in {m \in 1 .. NumMoves :
            /\ slot[moveKeys[m]] # 0
            /\ slot[moveKeys[m]] \in legacyIdSetOf(detail)
            /\ slot[moveKeys[m]] # allowedMoveId}}

\* handleLegacyChange that clears nothing
handleLegacyChangeNoClear(s, idx, detail, newTypeId) == s

\* handleLegacyChange(newTypeId): the store's slots after it
handleLegacyChange(s, idx, detail, newTypeId) ==
    LET keys == legacyClearKeys(s[idx], detail, newTypeId)
    IN  IF keys # {} THEN setSlot(s, idx, Patch([k \in keys |-> 0])) ELSE s

allowed == <<0, 7, 8, 9, 10>>

KEYS == <<"hp_boost", "phy_atk_boost", "mag_atk_boost", "phy_def_boost", "mag_def_boost", "spd_boost">>

\* KEYS.filter((k2) => (tal[k2] ?? 0) > 0).length
boostedOf(tal) == Cardinality({i \in DOMAIN KEYS : tal[KEYS[i]] > 0})

\* setTalent that accepts every change
setTalentAcceptsNoCap(slot, k, v) == TRUE

\* setTalent that refuses the third boost already
setTalentAcceptsBelowCap(slot, k, v) ==
    boostedOf([slot.talent EXCEPT ![k] = v]) < MaxBoosted

\* setTalent(k, v) passes the new talent to onChange
setTalentAccepts(slot, k, v) ==
    boostedOf([slot.talent EXCEPT ![k] = v]) <= MaxBoosted

(***************************************************************************)
(* BuilderPage: boostedCount, validateSlot, canAnalyze, slot status.       *)
(***************************************************************************)
boostedCount(t) ==
    Cardinality({i \in DOMAIN KEYS : t[KEYS[i]] > 0})

\* validateSlot that takes a legacy type granting the creature no move for a missing one
validateSlotLegacyStrict(slot) ==
    LET moves == {slot.move1_id, slot.move2_id, slot.move3_id, slot.move4_id}
        b == boostedCount(slot.talent)
        grants == /\ slot.monster_id \in MonsterIds
                  /\ slot.legacy_type_id \in DOMAIN MonsterCatalog[slot.monster_id].legacy_moves_by_type
    IN  (IF slot.monster_id = 0 THEN <<"v_pickMonster">> ELSE <<>>) \o
        (IF slot.personality_id = 0 THEN <<"v_setPersonality">> ELSE <<>>) \o
        (IF slot.legacy_type_id = 0 \/ ~grants THEN <<"v_chooseLegacy">> ELSE <<>>) \o
        (IF 0 \in moves THEN <<"v_select4Moves">> ELSE <<>>) \o
        (IF b = 0 THEN <<"v_pickTalent">> ELSE <<>>) \o
        (IF b > MaxBoosted THEN <<"v_max3">> ELSE <<>>)

\* validateSlot that reports too many boosts from 3 boosts on
validateSlotMaxAt3(slot) ==
    LET moves == {slot.move1_id, slot.move2_id, slot.move3_id, slot.move4_id}
        b == boostedCount(slot.talent)
    IN  (IF slot.monster_id = 0 THEN <<"v_pickMonster">> ELSE <<>>) \o
        (IF slot.personality_id = 0 THEN <<"v_setPersonality">> ELSE <<>>) \o
        (IF slot.legacy_type_id = 0 THEN <<"v_chooseLegacy">> ELSE <<>>) \o
        (IF 0 \in moves THEN <<"v_select4Moves">> ELSE <<>>) \o
        (IF b = 0 THEN <<"v_pickTalent">> ELSE <<>>) \o
        (IF b >= MaxBoosted THEN <<"v_max3">> ELSE <<>>)

validateSlot(slot) ==
    LET moves == {slot.move1_id, slot.move2_id, slot.move3_id, slot.move4_id}
        b == boostedCount(slot.talent)
    IN  (IF slot.monster_id = 0 THEN <<"v_pickMonster">> ELSE <<>>) \o
        (IF slot.personality_id = 0 THEN <<"v_setPersonality">> ELSE <<>>) \o
        (IF slot.legacy_type_id = 0 THEN <<"v_chooseLegacy">> ELSE <<>>) \o
        (IF 0 \in moves THEN <<"v_select4Moves">> ELSE <<>>) \o
        (IF b = 0 THEN <<"v_pickTalent">> ELSE <<>>) \o
        (IF b > MaxBoosted THEN <<"v_max3">> ELSE <<>>)

allErrors(s) == [i \in DOMAIN s |-> validateSlot(s[i])]

canAnalyzeOf(s, item) ==
    (\A i \in DOMAIN s : allErrors(s)[i] = <<>>) /\ ~(item = Null \/ item = 0)

\* a status that takes every slot with a creature for complete
statusKeyByCreature(slot) ==
    IF slot.monster_id = 0 THEN "status_empty" ELSE "status_complete"

statusKey(slot) ==
    LET hasMonster == slot.monster_id # 0
        isComplete == hasMonster /\ validateSlot(slot) = <<>>
    IN  IF ~hasMonster THEN "status_empty"
        ELSE IF isComplete THEN "status_complete"
        ELSE "status_incomplete"

\* String.prototype.trim on a sequence of characters
RECURSIVE trimStart(_)
trimStart(str) ==
    IF str # <<>> /\ Head(str) = " " THEN trimStart(Tail(str)) ELSE str

RECURSIVE trimEnd(_)
trimEnd(str) ==
    IF str # <<>> /\ str[Len(str)] = " " THEN trimEnd(SubSeq(str, 1, Len(str) - 1)) ELSE str

trim(str) == trimEnd(trimStart(str))

\* validateTeamName(name): the key of the error, "none" for null
validateTeamName(nm) ==
    LET trimmed == trim(nm)
    IN  IF trimmed = <<>> THEN "v_emptyTeamName"
        ELSE IF Len(trimmed) > MaxNameLen THEN "v_teamNameTooLong"
        ELSE "none"

\* !value of an id that may be null
unset(v) == v = Null \/ v = 0

\* toPayload that leaves the persisted ids in
toPayloadWithId(s, nm, item) ==
    [name |-> nm,
     magic_item_id |-> item,
     user_monsters |->
        [i \in DOMAIN s |->
            [k \in DOMAIN s[i] \cup {"position"} |->
                IF k = "position" THEN i ELSE s[i][k]]]]

\* builderStore.toPayload(): the payload when it does not throw (magic_item_id set)
toPayload(s, nm, item) ==
    [name |-> nm,
     magic_item_id |-> item,
     user_monsters |->
        [i \in DOMAIN s |->
            [k \in (DOMAIN s[i] \ {"id"}) \cup {"position"} |->
                IF k = "position" THEN i ELSE s[i][k]]]]

\* toUpdatePayload that leaves the persisted ids out
toUpdatePayloadNoId(s, nm, item) ==
    [name |-> nm,
     magic_item_id |-> item,
     user_monsters |->
        [i \in DOMAIN s |-> [toPayload(s, nm, item).user_monsters[i] EXCEPT !.position = i]
                                @@ [id |-> Undefined]]]

\* builderStore.toUpdatePayload(): the body when it is not null (teamId set)
toUpdatePayload(s, nm, item) ==
    [name |-> nm,
     magic_item_id |-> item,
     user_monsters |->
        [i \in DOMAIN s |->
            [id |-> s[i].id, monster_id |-> s[i].monster_id,
             personality_id |-> s[i].personality_id, legacy_type_id |-> s[i].legacy_type_id,
             move1_id |-> s[i].move1_id, move2_id |-> s[i].move2_id,
             move3_id |-> s[i].move3_id, move4_id |-> s[i].move4_id,
             talent |-> s[i].talent, position |-> i]]]

(***************************************************************************)
(* Saved teams (TeamOut) the server returns to Quick Build and to the      *)
(* saved-team page.                                                        *)
(***************************************************************************)
Talent(hp, pa, ma, pd, md, sp) ==
    [hp_boost |-> hp, phy_atk_boost |-> pa, mag_atk_boost |-> ma,
     phy_def_boost |-> pd, mag_def_boost |-> md, spd_boost |-> sp]

SavedMonster(umId, monster, personality, type, m1, m2, m3, m4, tal) ==
    [id |-> umId, monster |-> [id |-> monster], personality |-> [id |-> personality],
     legacy_type |-> [id |-> type],
     move1 |-> [id |-> m1], move2 |-> [id |-> m2], move3 |-> [id |-> m3], move4 |-> [id |-> m4],
     talent |-> tal]

SavedTeams ==
    <<[id |-> 1, name |-> <<"a", "l", "p", "h", "a">>, magic_item |-> [id |-> 1],
       user_monsters |-> <<
           SavedMonster(11, 1, 1, 1, 5, 1, 2, 3, Talent(7, 7, 7, 0, 0, 0)),
           SavedMonster(12, 2, 1, 3, 6, 1, 2, 3, Talent(7, 0, 0, 0, 0, 0)),
           SavedMonster(13, 1, 1, 2, 1, 2, 3, 6, Talent(0, 7, 0, 0, 0, 0)),
           SavedMonster(14, 1, 1, 2, 1, 2, 3, 6, Talent(0, 7, 0, 0, 0, 0)),
           SavedMonster(15, 1, 1, 2, 1, 2, 3, 6, Talent(0, 7, 0, 0, 0, 0)),
           SavedMonster(16, 1, 1, 2, 1, 2, 3, 6, Talent(0, 7, 0, 0, 0, 0))>>],
      [id |-> 2, name |-> <<"b", "e", "t", "a">>, magic_item |-> [id |-> Null],
       user_monsters |-> <<
           SavedMonster(21, 2, 1, 3, 1, 2, 3, 6, Talent(0, 0, 0, 7, 7, 7)),
           SavedMonster(22, 1, 1, 1, 1, 5, 2, 3, Talent(0, 0, 7, 0, 0, 0))>>]>>

TeamIdx == DOMAIN SavedTeams

(***************************************************************************)
(* State after construction: the store's initial values, the builder page  *)
(* mounted on slot 0 and nothing fetched yet.                              *)
(***************************************************************************)
NoFields == [k \in {} |-> 0]

\* the TeamAnalysisOut of a successful analyze request
AnalysisData == 1

Op(op, patchSet) == [op |-> op, patch |-> patchSet]

\* builderStore.toPayload(): it throws when magic_item_id is not set
toPayloadResult(s, nm, item) ==
    IF unset(item) THEN [threw |-> TRUE, value |-> NoFields]
    ELSE [threw |-> FALSE, value |-> toPayload(s, nm, item)]

\* builderStore.toUpdatePayload(): null when teamId is not set
toUpdatePayloadResult(s, nm, item, tid) ==
    IF unset(tid) THEN [null |-> TRUE, value |-> NoFields]
    ELSE [null |-> FALSE, value |-> toUpdatePayload(s, nm, item)]

(***************************************************************************)
(* The dex MovesTab.  A move of the list is [id, type, category, name,     *)
(* zhName, description, zhDescription]: `type` is the id of                *)
(* (move_type || type), 0 when the move has neither; `category` is         *)
(* (move_category || category || ""); texts are sequences of characters,   *)
(* <<>> for a text the move lacks.  The tab's state is one record:         *)
(* moves (moves.data ?? []), q, dq (the debounced q), typeId (Null: no     *)
(* type filter), cat ("" for null: no category filter) and `filtered`,     *)
(* the list the last render computed.                                      *)
(***************************************************************************)
lowerChar(c) == CASE c = "A" -> "a" [] c = "B" -> "b" [] c = "C" -> "c" [] OTHER -> c

toLowerCase(s) == [i \in 1..Len(s) |-> lowerChar(s[i])]

toUpperCase(s) ==
    CASE s = "phy_attack" -> "PHY_ATTACK"
      [] s = "defense" -> "DEFENSE"
      [] s = "Status" -> "STATUS"
      [] OTHER -> s

\* String.prototype.includes
includes(s, kw) == \E i \in 1..(Len(s) - Len(kw) + 1) : SubSeq(s, i, i + Len(kw) - 1) = kw

\* pickName(m, "zh"): the zh name when the move has one, else its name
pickNameZh(m) == IF m.zhName # <<>> THEN m.zhName ELSE m.name

\* the minimum of the ids of the list, null for an empty list
firstMoveId(list) ==
    IF list = <<>> THEN Null
    ELSE CHOOSE id \in {list[i].id : i \in 1..Len(list)} :
            \A i \in 1..Len(list) : id <= list[i].id

\* the type, category and keyword tests of the filter callback
passesFilters(m, kw, typeId, cat) ==
    /\ ~(typeId \notin {Null, 0} /\ (m.type = 0 \/ m.type # typeId))
    /\ ~(cat # "" /\ toUpperCase(m.category) # cat)
    /\ \/ kw = <<>>
       \/ \E s \in {toLowerCase(m.name), toLowerCase(pickNameZh(m)),
                    toLowerCase(m.description), toLowerCase(m.zhDescription)} :
              includes(s, kw)

filteredShowsFirst(list, dq, typeId, cat) ==
    LET kw == toLowerCase(trim(dq))
        keep(m) == passesFilters(m, kw, typeId, cat)
    IN  SelectSeq(list, keep)

filtered(list, dq, typeId, cat) ==
    LET kw == toLowerCase(trim(dq))
        first == firstMoveId(list)
        keep(m) == /\ ~(first # Null /\ m.id = first)
                   /\ passesFilters(m, kw, typeId, cat)
    IN  SelectSeq(list, keep)

\* a render of the tab recomputes `filtered`
renderMovesTab(mt) == [mt EXCEPT !.filtered = filtered(mt.moves, mt.dq, mt.typeId, mt.cat)]

InitMovesTab ==
    [moves |-> <<>>, q |-> <<>>, dq |-> <<>>, typeId |-> Null, cat |-> "", filtered |-> <<>>]

(***************************************************************************)
(* TeamsListPage.  A team of the list is [id, name].  The page's state is  *)
(* one record: `loaded` and `data` are the ["teams"] query's data          *)
(* (undefined while ~loaded), `server` the teams the backend holds,        *)
(* `refetching` whether a fetch of the query is in flight, `remove` and    *)
(* `rename` the two mutations with their variables and context (prev is    *)
(* [has, data]: has = FALSE for an undefined snapshot), `renamingTeam` the *)
(* id of the team of the rename dialog (0: null), `outcomes` the           *)
(* mutations that have settled and `started` how many have started.        *)
(* `del` is the delete mutation of SavedTeamPage, which works on the same  *)
(* query, and `response` the backend's answer to the fetch in flight that  *)
(* has not arrived yet (has = FALSE: not answered yet).                    *)
(***************************************************************************)
ServerTeams == <<[id |-> 1, name |-> <<"a">>], [id |-> 2, name |-> <<"b">>]>>

NoSnapshot == [has |-> FALSE, data |-> <<>>]

InitTeamsPage ==
    [loaded |-> FALSE, data |-> <<>>, server |-> ServerTeams, refetching |-> TRUE,
     response |-> NoSnapshot,
     del |-> [pending |-> FALSE, id |-> 0, prev |-> NoSnapshot],
     remove |-> [pending |-> FALSE, id |-> 0, prev |-> NoSnapshot],
     rename |-> [pending |-> FALSE, id |-> 0, name |-> <<>>, prev |-> NoSnapshot],
     renamingTeam |-> 0, outcomes |-> {}, started |-> 0]

\* the store's initial values but the roster, and the page before any fetch
InitPage ==
    /\ teamId = Null
    /\ name = <<>>
    /\ magic_item_id = Null
    /\ analysis = Null
    /\ isAnalyzing = FALSE
    /\ lookups = {}
    /\ inFlight = {}
    /\ sent = [kind |-> "none", id |-> Null, payload |-> NoFields]
    /\ activeIdx = 0
    /\ detailQ = [m \in MonsterIds |-> "idle"]
    /\ typesLoaded = FALSE
    /\ movesLoaded = {}
    /\ effectDeps = <<FALSE, Null>>
    /\ movesTab = InitMovesTab
    /\ teamsPage = InitTeamsPage
    /\ lastOp = Op("init", NoFields)
    /\ notice = "none"

Init ==
    /\ slots = emptyRoster
    /\ InitPage

(***************************************************************************)
(* A render of BuilderPage / MonsterInspector after a change: the detail   *)
(* query of the active slot's creature starts, and the leader effect runs  *)
(* when one of its dependencies [isLeaderForm, leaderTypeId] has changed   *)
(* (always on mount).                                                      *)
(***************************************************************************)
startDetailQuery(s, a, dq) ==
    IF s[a].monster_id \in MonsterIds /\ dq[s[a].monster_id] = "idle"
    THEN [dq EXCEPT ![s[a].monster_id] = "loading"]
    ELSE dq

effectDepsOf(s, a, dq, tl) ==
    <<isLeaderForm(detailOf(s[a], dq)), leaderTypeId(detailOf(s[a], dq), tl)>>

\* the slots after the body of the leader effect
leaderEffect(s, a, dq, tl) ==
    LET detail == detailOf(s[a], dq)
        lt == leaderTypeId(detail, tl)
    IN  IF isLeaderForm(detail) /\ lt # Null /\ lt # 0 /\ s[a].legacy_type_id # lt
        THEN setSlot(s, a, Patch(("legacy_type_id" :> lt)))
        ELSE s

Render(s, a, dq, tl, mount) ==
    LET dq2 == startDetailQuery(s, a, dq)
        deps == effectDepsOf(s, a, dq2, tl)
    IN  /\ slots' = IF mount \/ deps # effectDeps THEN leaderEffect(s, a, dq2, tl) ELSE s
        /\ activeIdx' = a
        /\ detailQ' = dq2
        /\ typesLoaded' = tl
        /\ effectDeps' = deps

(***************************************************************************)
(* Handlers.  Each is the whole handler: the store update(s) it makes and  *)
(* the render that follows.                                                *)
(***************************************************************************)
ActiveIdxs == 0 .. Min(MaxActiveIdx, NumSlots - 1)
PickPositions == 1 .. Min(MaxPickPos, NumMoves)
TalentChoices == {allowed[i] : i \in 1 .. Min(1 + MaxTalentChoice, Len(allowed))}
TalentKeys == Range(KEYS)

\* the options of a select the user clicks: the first MaxOption of the list
CandidateIdx == 1 .. MaxOption

metaUnchanged ==
    UNCHANGED <<teamId, name, magic_item_id, analysis, isAnalyzing, movesLoaded, submitVars,
                otherPages>>

\* BuilderPage: click on a slot card
SetActive(i) ==
    /\ i # activeIdx
    /\ Render(slots, i, detailQ, typesLoaded, FALSE)
    /\ lastOp' = Op("setActive", NoFields)
    /\ UNCHANGED notice
    /\ metaUnchanged

\* MonsterInspector: MonsterPicker onPick
PickMonster(m) ==
    /\ slots[activeIdx].monster_id = 0
    /\ LET patch == Patch(("monster_id" :> m))
       IN  /\ Render(setSlot(slots, activeIdx, patch), activeIdx, detailQ, typesLoaded, FALSE)
           /\ lastOp' = Op("pickMonster", patch.set)
    /\ UNCHANGED notice
    /\ metaUnchanged

\* MonsterInspector: the change-monster button
ChangeMonster ==
    /\ slots[activeIdx].monster_id # 0
    /\ LET patch == Patch([monster_id |-> 0, move1_id |-> 0, move2_id |-> 0,
                           move3_id |-> 0, move4_id |-> 0])
       IN  /\ Render(setSlot(slots, activeIdx, patch), activeIdx, detailQ, typesLoaded, FALSE)
           /\ lastOp' = Op("changeMonster", patch.set)
    /\ UNCHANGED notice
    /\ metaUnchanged

\* BuilderPage: MonsterCard onDelete of slot i
DeleteSlot(i) ==
    /\ slots[i].monster_id # 0
    /\ LET patch == Patch([monster_id |-> 0, personality_id |-> 0, legacy_type_id |-> 0,
                           move1_id |-> 0, move2_id |-> 0, move3_id |-> 0, move4_id |-> 0,
                           talent |-> emptyTalent])
       IN  /\ Render(setSlot(slots, i, patch), activeIdx, detailQ, typesLoaded, FALSE)
           /\ lastOp' = Op("delete", patch.set)
    /\ UNCHANGED notice
    /\ metaUnchanged

\* PersonalitySection: onChange({ personality_id: id })
SetPersonality(p) ==
    /\ slots[activeIdx].monster_id # 0
    /\ LET patch == Patch(("personality_id" :> p))
       IN  /\ Render(setSlot(slots, activeIdx, patch), activeIdx, detailQ, typesLoaded, FALSE)
           /\ lastOp' = Op("setPersonality", patch.set)
    /\ UNCHANGED notice
    /\ metaUnchanged

\* LegacyTypeSection onChange: onChange({ legacy_type_id: id }); onLegacyChange(id)
ChangeLegacyType(t) ==
    /\ slots[activeIdx].monster_id # 0
    /\ typesLoaded
    /\ ~isLeaderForm(detailOf(slots[activeIdx], detailQ))
    /\ LET patch == Patch(("legacy_type_id" :> t))
           s1 == setSlot(slots, activeIdx, patch)
           s2 == handleLegacyChange(s1, activeIdx, detailOf(slots[activeIdx], detailQ), t)
       IN  /\ Render(s2, activeIdx, detailQ, typesLoaded, FALSE)
           /\ lastOp' = Op("legacyChange", patch.set)
    /\ UNCHANGED notice
    /\ metaUnchanged

\* MovesSection: click on option c of the select of move position n
PickMove(n, c) ==
    LET slot == slots[activeIdx]
        detail == detailOf(slot, detailQ)
        lmap == useLegacyMap(detail, movesLoaded)
        cands == candidates(detail, slot.legacy_type_id, movesLoaded)
    IN  /\ slot.monster_id # 0
        /\ ~detailIsLoading(slot, detailQ)
        /\ c \in DOMAIN cands
        /\ IF canPick(slot, n, cands[c].move, cands[c].isLegacy, Range(lmap))
           THEN LET patch == onPickPatch(n, cands[c].move, cands, slot.legacy_type_id, lmap)
                IN  /\ Render(setSlot(slots, activeIdx, patch), activeIdx, detailQ, typesLoaded, FALSE)
                    /\ lastOp' = Op("onPick", patch.set)
           ELSE /\ lastOp' = Op("onPickRefused", (moveKeys[n] :> cands[c].move))
                /\ UNCHANGED <<slots, activeIdx, detailQ, typesLoaded, effectDeps>>
        /\ UNCHANGED notice
        /\ metaUnchanged

\* TalentsSection: choice of value v for stat k
SetTalent(k, v) ==
    LET slot == slots[activeIdx]
        patch == Patch([talent |-> [slot.talent EXCEPT ![k] = v]])
    IN  /\ slot.monster_id # 0
        /\ IF setTalentAccepts(slot, k, v)
           THEN /\ Render(setSlot(slots, activeIdx, patch), activeIdx, detailQ, typesLoaded, FALSE)
                /\ lastOp' = Op("setTalent", patch.set)
                /\ UNCHANGED notice
           ELSE /\ lastOp' = Op("setTalentRefused", patch.set)
                /\ notice' = "v_max3"
                /\ UNCHANGED <<slots, activeIdx, detailQ, typesLoaded, effectDeps>>
        /\ metaUnchanged

\* loadFromTeam after which the team id stays the loaded team's
loadFromTeamKeepsId(team, mount, clearId) ==
    /\ Render(loadedSlots(team), IF mount THEN 0 ELSE activeIdx, detailQ, typesLoaded, mount)
    /\ teamId' = team.id
    /\ name' = team.name
    /\ magic_item_id' = team.magic_item.id
    /\ UNCHANGED <<analysis, isAnalyzing, movesLoaded, submitVars, otherPages, notice>>

\* builderStore.loadFromTeam(team): the store fields it writes
loadFromTeam(team, mount, clearId) ==
    /\ Render(loadedSlots(team), IF mount THEN 0 ELSE activeIdx, detailQ, typesLoaded, mount)
    /\ teamId' = IF clearId THEN Null ELSE team.id
    /\ name' = team.name
    /\ magic_item_id' = team.magic_item.id
    /\ UNCHANGED <<analysis, isAnalyzing, movesLoaded, submitVars, otherPages, notice>>

\* builderStore.loadFromTeam(team) called with any team, from the saved-team page
\* (the builder page mounts, the team id is kept) or from Quick Build (clearTeamId follows)
LoadTeam(team, quick) ==
    /\ loadFromTeam(team, ~quick, quick)
    /\ lastOp' = [op |-> "loadFromTeam", patch |-> NoFields, team |-> team]

\* Topbar: Quick Build succeeds with `team` while the builder page is shown
QuickBuild(ti) ==
    /\ loadFromTeam(SavedTeams[ti], FALSE, TRUE)
    /\ lastOp' = Op("quickBuild", NoFields)

\* SavedTeamPage: "edit in builder" loads the team and opens the builder page
EditInBuilder(ti) ==
    /\ loadFromTeam(SavedTeams[ti], TRUE, FALSE)
    /\ lastOp' = Op("editInBuilder", NoFields)

\* SavedTeamPage: "edit copy in builder" loads a clone of the team with id 0 and
\* " (Copy)" behind its name, and opens the builder page
CopySuffix == <<" ", "(", "C", "o", "p", "y", ")">>

EditCopyInBuilder(ti) ==
    /\ loadFromTeam([SavedTeams[ti] EXCEPT
                        !.id = 0,
                        !.name = (IF @ = <<>> THEN <<"T", "e", "a", "m">> ELSE @) \o CopySuffix],
                    TRUE, FALSE)
    /\ lastOp' = Op("editCopyInBuilder", NoFields)

\* a reset that leaves the analysis and the analyzing flag as they are
ResetKeepsAnalysis ==
    /\ Render(emptyRoster, activeIdx, detailQ, typesLoaded, FALSE)
    /\ teamId' = Null
    /\ name' = <<>>
    /\ magic_item_id' = Null
    /\ lastOp' = Op("reset", NoFields)
    /\ UNCHANGED <<analysis, isAnalyzing, movesLoaded, submitVars, otherPages, notice>>

\* Topbar: reset, confirmed
Reset ==
    /\ Render(emptyRoster, activeIdx, detailQ, typesLoaded, FALSE)
    /\ teamId' = Null
    /\ name' = <<>>
    /\ magic_item_id' = Null
    /\ analysis' = Null
    /\ isAnalyzing' = FALSE
    /\ lastOp' = Op("reset", NoFields)
    /\ UNCHANGED <<movesLoaded, submitVars, otherPages, notice>>

\* the response of useMonsterDetail(m) arrives
DetailLoaded(m) ==
    /\ detailQ[m] = "loading"
    /\ Render(slots, activeIdx, [detailQ EXCEPT ![m] = "success"], typesLoaded, FALSE)
    /\ lastOp' = Op("detailLoaded", NoFields)
    /\ UNCHANGED notice
    /\ metaUnchanged

\* the response of the types query arrives
TypesLoaded ==
    /\ ~typesLoaded
    /\ Render(slots, activeIdx, detailQ, TRUE, FALSE)
    /\ lastOp' = Op("typesLoaded", NoFields)
    /\ UNCHANGED notice
    /\ metaUnchanged

\* the response of a legacy move's detail query (useLegacyMap) arrives
MoveLoaded(mv) ==
    /\ mv \notin movesLoaded
    /\ mv \in legacyIdSetOf(detailOf(slots[activeIdx], detailQ))
    /\ movesLoaded' = movesLoaded \cup {mv}
    /\ lastOp' = Op("moveLoaded", NoFields)
    /\ UNCHANGED <<slots, teamId, name, magic_item_id, analysis, isAnalyzing,
                   activeIdx, detailQ, typesLoaded, effectDeps, submitVars, otherPages, notice>>

\* BuilderPage.handleDragEnd: the card of slot `from` is dropped on the card of slot `to`.
\* The store defines no moveSlot, so the destructured moveSlot is undefined and the
\* call moveSlot(fromIdx, toIdx) throws before setActiveIdx is reached.
handleDragEnd(from, to) ==
    /\ lastOp' = [op |-> "dragEnd", patch |-> NoFields, from |-> from, to |-> to,
                  threw |-> from # to]
    /\ UNCHANGED <<slots, teamId, name, magic_item_id, analysis, isAnalyzing, activeIdx,
                   detailQ, typesLoaded, movesLoaded, effectDeps, submitVars, otherPages, notice>>

(***************************************************************************)
(* BuilderPage: the bottom bar.  A button that is disabled takes no click. *)
(***************************************************************************)
\* the input of the team name
SetName(v) ==
    /\ v # name
    /\ name' = v
    /\ lastOp' = Op("setName", NoFields)
    /\ UNCHANGED <<slots, teamId, magic_item_id, analysis, isAnalyzing, activeIdx, detailQ,
                   typesLoaded, movesLoaded, effectDeps, submitVars, otherPages, notice>>

\* the select of the magic item: setMagicItem(v ? v : null)
SetMagicItem(v) ==
    /\ magic_item_id' = IF v # 0 THEN v ELSE Null
    /\ magic_item_id' # magic_item_id
    /\ lastOp' = Op("setMagicItem", NoFields)
    /\ UNCHANGED <<slots, teamId, name, analysis, isAnalyzing, activeIdx, detailQ,
                   typesLoaded, movesLoaded, effectDeps, submitVars, otherPages, notice>>

editorUnchanged ==
    UNCHANGED <<slots, name, magic_item_id, activeIdx, detailQ, typesLoaded, movesLoaded, effectDeps,
                otherPages>>

\* the Analyze button
onAnalyze ==
    /\ canAnalyzeOf(slots, magic_item_id) /\ "analyze" \notin inFlight /\ ~isAnalyzing
    /\ IF isAnalyzing
       THEN /\ notice' = "analysisInProgress"
            /\ lastOp' = Op("onAnalyze", NoFields)
            /\ UNCHANGED <<analysis, isAnalyzing, inFlight, sent>>
       ELSE IF unset(magic_item_id)
       THEN /\ notice' = "v_pickMagicItem"
            /\ lastOp' = Op("onAnalyze", NoFields)
            /\ UNCHANGED <<analysis, isAnalyzing, inFlight, sent>>
       ELSE IF ~canAnalyzeOf(slots, magic_item_id)
       THEN /\ notice' = "incompleteTeamMsg"
            /\ lastOp' = Op("onAnalyze", NoFields)
            /\ UNCHANGED <<analysis, isAnalyzing, inFlight, sent>>
       ELSE /\ analysis' = Null
            /\ notice' = "none"
            /\ sent' = [kind |-> "analyze", id |-> Null,
                        payload |-> toPayload(slots, name, magic_item_id)]
            /\ inFlight' = inFlight \cup {"analyze"}
            /\ isAnalyzing' = TRUE
            /\ lastOp' = Op("analyze.mutate", NoFields)
    /\ UNCHANGED <<teamId, lookups>>
    /\ editorUnchanged

\* the analyze mutation settles: onSuccess / onError, then onSettled
AnalyzeSettled(ok) ==
    /\ "analyze" \in inFlight
    /\ inFlight' = inFlight \ {"analyze"}
    /\ isAnalyzing' = FALSE
    /\ analysis' = IF ok THEN AnalysisData ELSE analysis
    /\ notice' = IF ok THEN "none" ELSE "serverError"
    /\ lastOp' = Op("analyzeSettled", NoFields)
    /\ UNCHANGED <<teamId, lookups, sent>>
    /\ editorUnchanged

\* the teams endpoints.listTeams() returns
existingTeams == SavedTeams

\* the id the server gives a created team
createdTeamId == Len(SavedTeams) + 1

\* the Save button: onSaveNew up to `await qc.fetchQuery`
onSaveNew ==
    /\ canAnalyzeOf(slots, magic_item_id) /\ "create" \notin inFlight
    /\ Cardinality(lookups) < MaxLookups
    /\ IF validateTeamName(name) # "none"
       THEN /\ notice' = validateTeamName(name)
            /\ UNCHANGED lookups
       ELSE IF unset(magic_item_id) \/ ~canAnalyzeOf(slots, magic_item_id)
       THEN /\ notice' = "incompleteTeamMsg"
            /\ UNCHANGED lookups
       ELSE /\ lookups' = lookups \cup {[kind |-> "create", name |-> name, teamId |-> teamId]}
            /\ UNCHANGED notice
    /\ lastOp' = Op("onSaveNew", NoFields)
    /\ UNCHANGED <<teamId, analysis, isAnalyzing, inFlight, sent>>
    /\ editorUnchanged

\* the Update button: onUpdateExisting up to `await qc.fetchQuery`
onUpdateExisting ==
    /\ ~unset(teamId)
    /\ canAnalyzeOf(slots, magic_item_id) /\ "update" \notin inFlight
    /\ Cardinality(lookups) < MaxLookups
    /\ IF validateTeamName(name) # "none"
       THEN /\ notice' = validateTeamName(name)
            /\ UNCHANGED lookups
       ELSE IF unset(magic_item_id) \/ ~canAnalyzeOf(slots, magic_item_id)
       THEN /\ notice' = "incompleteTeamMsg"
            /\ UNCHANGED lookups
       ELSE /\ lookups' = lookups \cup {[kind |-> "update", name |-> name, teamId |-> teamId]}
            /\ UNCHANGED notice
    /\ lastOp' = Op("onUpdateExisting", NoFields)
    /\ UNCHANGED <<teamId, analysis, isAnalyzing, inFlight, sent>>
    /\ editorUnchanged

\* onSaveNew after the await: the lookup `l` answers (ok) or fails
SaveLookupDone(l, ok) ==
    /\ l \in lookups /\ l.kind = "create"
    /\ lookups' = lookups \ {l}
    /\ LET trimmedName == trim(l.name)
           duplicate == \E i \in DOMAIN existingTeams : existingTeams[i].name = trimmedName
       IN  IF ~ok
           THEN notice' = "lookupError" /\ lastOp' = Op("saveRefused", NoFields)
                /\ UNCHANGED <<inFlight, sent>>
           ELSE IF duplicate
           THEN notice' = "v_duplicateTeamName" /\ lastOp' = Op("saveRefused", NoFields)
                /\ UNCHANGED <<inFlight, sent>>
           ELSE IF unset(magic_item_id)
           THEN notice' = "toPayloadError" /\ lastOp' = Op("saveRefused", NoFields)
                /\ UNCHANGED <<inFlight, sent>>
           ELSE /\ sent' = [kind |-> "create", id |-> Null,
                            payload |-> toPayload(slots, name, magic_item_id)]
                /\ inFlight' = inFlight \cup {"create"}
                /\ lastOp' = Op("createTeam.mutate", NoFields)
                /\ UNCHANGED notice
    /\ UNCHANGED <<teamId, analysis, isAnalyzing>>
    /\ editorUnchanged

\* onUpdateExisting after the await: the lookup `l` answers (ok) or fails
UpdateLookupDone(l, ok) ==
    /\ l \in lookups /\ l.kind = "update"
    /\ lookups' = lookups \ {l}
    /\ LET trimmedName == trim(l.name)
           duplicate == \E i \in DOMAIN existingTeams :
                            existingTeams[i].id # l.teamId /\ existingTeams[i].name = trimmedName
       IN  IF ~ok
           THEN notice' = "lookupError" /\ lastOp' = Op("updateRefused", NoFields)
                /\ UNCHANGED <<inFlight, sent>>
           ELSE IF duplicate
           THEN notice' = "v_duplicateTeamName" /\ lastOp' = Op("updateRefused", NoFields)
                /\ UNCHANGED <<inFlight, sent>>
           ELSE IF unset(teamId)
           THEN notice' = "incompleteTeamMsg" /\ lastOp' = Op("updateRefused", NoFields)
                /\ UNCHANGED <<inFlight, sent>>
           ELSE /\ sent' = [kind |-> "update", id |-> l.teamId,
                            payload |-> toUpdatePayload(slots, name, magic_item_id)]
                /\ inFlight' = inFlight \cup {"update"}
                /\ lastOp' = Op("updateTeam.mutate", NoFields)
                /\ UNCHANGED notice
    /\ UNCHANGED <<teamId, analysis, isAnalyzing>>
    /\ editorUnchanged

\* the createTeam mutation settles: onSuccess keeps the new team's id
CreateSettled(ok) ==
    /\ "create" \in inFlight
    /\ inFlight' = inFlight \ {"create"}
    /\ teamId' = IF ok THEN createdTeamId ELSE teamId
    /\ notice' = IF ok THEN "savedMsg" ELSE "serverError"
    /\ lastOp' = Op("createSettled", NoFields)
    /\ UNCHANGED <<analysis, isAnalyzing, lookups, sent>>
    /\ editorUnchanged

\* the updateTeam mutation settles
UpdateSettled(ok) ==
    /\ "update" \in inFlight
    /\ inFlight' = inFlight \ {"update"}
    /\ notice' = IF ok THEN "updatedMsg" ELSE "serverError"
    /\ lastOp' = Op("updateSettled", NoFields)
    /\ UNCHANGED <<teamId, analysis, isAnalyzing, lookups, sent>>
    /\ editorUnchanged

(***************************************************************************)
(* The move and legacy-type editor of the inspector.                       *)
(***************************************************************************)
NextMoves ==
    \/ \E m \in MonsterIds : PickMonster(m)
    \/ ChangeMonster
    \/ DeleteSlot(activeIdx)
    \/ \E t \in TypeIds : ChangeLegacyType(t)
    \/ \E n \in PickPositions, c \in CandidateIdx : PickMove(n, c)
    \/ \E ti \in TeamIdx : EditInBuilder(ti)
    \/ \E m \in MonsterIds : DetailLoaded(m)
    \/ TypesLoaded
    \/ \E mv \in AllLegacyMoveIds : MoveLoaded(mv)

SpecMoves == Init /\ [][NextMoves]_vars

(***************************************************************************)
(* Properties of the move and legacy-type editor.                          *)
(***************************************************************************)
\* the legacy moves of a slot's creature, and the move a type grants it (0: none)
LegacySetOfSlot(slot) ==
    IF slot.monster_id \in MonsterIds
    THEN Range(MonsterCatalog[slot.monster_id].legacy_moves_by_type)
    ELSE {}

GrantedBy(slot, t) ==
    IF slot.monster_id \in MonsterIds /\ t \in DOMAIN MonsterCatalog[slot.monster_id].legacy_moves_by_type
    THEN MonsterCatalog[slot.monster_id].legacy_moves_by_type[t]
    ELSE 0

LegacyPositions(slot) ==
    {n \in 1 .. NumMoves : slot[moveKeys[n]] \in LegacySetOfSlot(slot)}

DetailLoadedFor(slot) ==
    slot.monster_id \in MonsterIds /\ detailQ[slot.monster_id] = "success"

\* C3: in a slot whose creature detail is loaded, at most one move position holds a
\* legacy move of the creature, and when the legacy type is set that move is the one
\* the selected type grants.
C3_LegacyMoveMatchesType ==
    \A i \in SlotIdx :
        DetailLoadedFor(slots[i]) =>
            /\ Cardinality(LegacyPositions(slots[i])) <= 1
            /\ \A n \in LegacyPositions(slots[i]) :
                   slots[i].legacy_type_id # 0 =>
                       slots[i][moveKeys[n]] = GrantedBy(slots[i], slots[i].legacy_type_id)


\* the slot a handler worked on, before and after the step
PreSlot == slots[activeIdx]
PostSlot == slots'[activeIdx]

\* the move position and the move of the last pick (accepted or refused)
PickedPos(op) == CHOOSE n \in 1 .. NumMoves : moveKeys[n] \in DOMAIN op.patch
PickedMove(op) == op.patch[moveKeys[PickedPos(op)]]

NoDuplicateMoves ==
    \A i \in SlotIdx : \A n, j \in 1 .. NumMoves :
        (n # j /\ slots[i][moveKeys[n]] # 0) => slots[i][moveKeys[n]] # slots[i][moveKeys[j]]

OccupiesOtherPosition(slot, n, id) ==
    \E j \in 1 .. NumMoves : j # n /\ slot[moveKeys[j]] = id

C5_LegacyChangeClearsStale ==
    [][lastOp'.op = "legacyChange" =>
        LET t == lastOp'.patch.legacy_type_id
        IN  /\ PostSlot.legacy_type_id = t
            /\ \A n \in 1 .. NumMoves :
                   PostSlot[moveKeys[n]] =
                       IF /\ PreSlot[moveKeys[n]] \in LegacySetOfSlot(PreSlot)
                          /\ PreSlot[moveKeys[n]] # GrantedBy(PreSlot, t)
                       THEN 0
                       ELSE PreSlot[moveKeys[n]]]_vars

\* C6: a pick of a legacy move M of the creature into position n while the legacy type
\* is unset sets the legacy type to the type that grants M together with position n,
\* and is never refused; every other accepted pick changes position n only.
C6_LegacyPickInfersType ==
    [][/\ lastOp'.op = "onPick" =>
            LET n == PickedPos(lastOp')
                mv == PickedMove(lastOp')
            IN  IF PreSlot.legacy_type_id = 0 /\ mv \in LegacySetOfSlot(PreSlot)
                THEN \E t \in TypeIds :
                        /\ GrantedBy(PreSlot, t) = mv
                        /\ PostSlot = [PreSlot EXCEPT ![moveKeys[n]] = mv, !["legacy_type_id"] = t]
                ELSE PostSlot = [PreSlot EXCEPT ![moveKeys[n]] = mv]
       /\ lastOp'.op = "onPickRefused" =>
            ~(PreSlot.legacy_type_id = 0 /\ PickedMove(lastOp') \in LegacySetOfSlot(PreSlot))]_vars

\* a legacy move was picked while the legacy type was unset, and the type was set with it
C6_Witness ==
    /\ lastOp.op = "onPick"
    /\ "legacy_type_id" \in DOMAIN lastOp.patch
    /\ PickedMove(lastOp) \in LegacySetOfSlot(slots[activeIdx])
    /\ GrantedBy(slots[activeIdx], slots[activeIdx].legacy_type_id) = PickedMove(lastOp)

(***************************************************************************)
(* The inspector on several slots, with leader forms.                      *)
(***************************************************************************)
NextLeader ==
    \/ \E i \in ActiveIdxs : SetActive(i)
    \/ \E m \in MonsterIds : PickMonster(m)
    \/ ChangeMonster
    \/ \E t \in TypeIds : ChangeLegacyType(t)
    \/ \E ti \in TeamIdx : QuickBuild(ti)
    \/ \E m \in MonsterIds : DetailLoaded(m)
    \/ TypesLoaded

SpecLeader == Init /\ [][NextLeader]_vars

LeaderId == (CHOOSE i \in DOMAIN TypeList : TypeList[i].name = "Leader")

\* C7: the slot the inspector shows, when its creature is a leader form and the creature
\* detail and the types list are loaded, has legacy_type_id = the Leader type.
C7_LeaderPinned ==
    LET slot == slots[activeIdx]
    IN  (/\ DetailLoadedFor(slot)
         /\ MonsterCatalog[slot.monster_id].is_leader_form
         /\ typesLoaded)
            => slot.legacy_type_id = TypeList[LeaderId].id


(***************************************************************************)
(* The talent editor of the inspector.                                     *)
(***************************************************************************)
NextTalents ==
    \/ \E m \in MonsterIds : PickMonster(m)
    \/ \E k \in TalentKeys, v \in TalentChoices : SetTalent(k, v)
    \/ DeleteSlot(activeIdx)
    \/ \E ti \in TeamIdx : QuickBuild(ti)
    \/ \E ti \in TeamIdx : EditInBuilder(ti)
    \/ Reset

SpecTalents == Init /\ [][NextTalents]_vars

BoostedStats(slot) == {k \in DOMAIN slot.talent : slot.talent[k] > 0}

AskedBoosts(op) == Cardinality({k \in DOMAIN op.patch.talent : op.patch.talent[k] > 0})

\* C11: a talent change that asks for more than 3 boosted stats is refused, the roster
\* stays as it was and the user is told the reason (v_max3); a talent change that asks
\* for 3 boosted stats or fewer is applied: the slot takes the talent asked for, its
\* other fields and the other slots stay as they were.
C11_TalentCapRejection ==
    [][/\ lastOp'.op = "setTalentRefused" =>
            (AskedBoosts(lastOp') > 3 /\ slots' = slots /\ notice' = "v_max3")
       /\ lastOp'.op = "setTalent" =>
            /\ AskedBoosts(lastOp') <= 3
            /\ slots' = [slots EXCEPT ![activeIdx].talent = lastOp'.patch.talent]]_vars

\* C13: the delete of the creature of the slot shown leaves that slot equal to emptySlot()
\* in every field and the other slots as they were, and the same delete applied to the
\* result changes nothing.
C13_DeleteGivesEmptySlot ==
    [][lastOp'.op = "delete" =>
        /\ slots'[activeIdx] = emptySlot
        /\ \A j \in SlotIdx : j # activeIdx => slots'[j] = slots[j]
        /\ setSlot(slots', activeIdx, Patch(lastOp'.patch)) = slots']_vars

\* the user was told why the fourth boost was refused
C11_Witness ==
    /\ lastOp.op = "setTalentRefused"
    /\ notice = "v_max3"
    /\ AskedBoosts(lastOp) = 4


(***************************************************************************)
(* The builder store under direct calls of its operations.                 *)
(***************************************************************************)
\* patches given to setSlot: fields with a value, and fields given as undefined
StorePatches ==
    {[set |-> ("monster_id" :> 1 @@ "personality_id" :> 0), undef |-> {"id", "move3_id"}],
     [set |-> ("move1_id" :> 1), undef |-> {"move2_id", "talent"}]}

\* builderStore.setSlot(idx, patch)
SetSlotCall(idx, patch) ==
    /\ Render(setSlot(slots, idx, patch), activeIdx, detailQ, typesLoaded, FALSE)
    /\ lastOp' = [op |-> "setSlot", patch |-> patch.set, idx |-> idx, undef |-> patch.undef]
    /\ UNCHANGED notice
    /\ metaUnchanged

NextStore ==
    \/ \E idx \in SlotIdx, patch \in StorePatches : SetSlotCall(idx, patch)
    \/ DeleteSlot(activeIdx)
    \/ ChangeMonster
    \/ \E ti \in TeamIdx : QuickBuild(ti)
    \/ \E ti \in TeamIdx : EditInBuilder(ti)
    \/ Reset

SpecStore == Init /\ [][NextStore]_vars

\* C1: the roster has exactly 6 slots, and every slot has its four move fields, each
\* holding a move id or the unset sentinel 0.
C1_SixSlotsFourMoves ==
    /\ DOMAIN slots = 0 .. 5
    /\ \A i \in DOMAIN slots : \A n \in 1 .. 4 :
           /\ moveKeys[n] \in DOMAIN slots[i]
           /\ slots[i][moveKeys[n]] \in Nat

\* a team of fewer than 6 records was loaded, and an empty slot took a patch with a
\* field given as undefined
C1_Witness ==
    /\ teamId = 2
    /\ slots[5] = emptySlot
    /\ lastOp.op = "setSlot"
    /\ lastOp.patch = ("move1_id" :> 1)
    /\ slots[2] = [emptySlot EXCEPT !.move1_id = 1]

\* C12: setSlot(idx, patch) changes slot idx only, and in it the fields the patch gives a
\* value only: a field given as 0 is written as 0, a field given as undefined keeps its
\* value; the other slots, the name, the item, the team id and the analysis are unchanged.
C12_SetSlotFrame ==
    [][lastOp'.op = "setSlot" =>
        LET idx == lastOp'.idx
            given == lastOp'.patch
        IN  /\ DOMAIN slots' = DOMAIN slots
            /\ \A j \in DOMAIN slots : j # idx => slots'[j] = slots[j]
            /\ DOMAIN slots'[idx] = DOMAIN slots[idx]
            /\ \A k \in DOMAIN slots[idx] :
                   slots'[idx][k] = IF k \in DOMAIN given THEN given[k] ELSE slots[idx][k]
            /\ UNCHANGED <<name, magic_item_id, teamId, analysis>>]_vars

\* a loaded slot took a patch that clears its personality and gives its id as undefined
C12_Witness ==
    /\ lastOp.op = "setSlot"
    /\ lastOp.idx = 1
    /\ "id" \in lastOp.undef
    /\ slots[1].personality_id = 0
    /\ slots[1].id = 22
    /\ slots[1].move3_id = 2

(***************************************************************************)
(* The validator of BuilderPage on arbitrary slots: slot 0 is drawn from   *)
(* SlotInputs, the slots 1..5 are all empty or all complete.               *)
(***************************************************************************)
SlotInputs ==
    {[id |-> Undefined, monster_id |-> m, personality_id |-> p, legacy_type_id |-> t,
      move1_id |-> m1, move2_id |-> 2, move3_id |-> 3, move4_id |-> m4,
      talent |-> Talent(a, b, c, d, e, f)] :
        m \in {0, 1}, p \in {0, 1}, t \in {0, 1, 3}, m1 \in {0, 1}, m4 \in {0, 4, 6},
        a \in {0, 7}, b \in {0, 8}, c \in {0, 9}, d \in {0, 10}, e \in {0, 7}, f \in {0, 7}}

completeSlot == slotOfSaved(SavedTeams[1].user_monsters[3])

InitValidate ==
    /\ \E s0 \in SlotInputs, rest \in {emptySlot, completeSlot} :
           slots = [i \in SlotIdx |-> IF i = 0 THEN s0 ELSE rest]
    /\ InitPage

NextValidate ==
    \/ \E m \in MonsterIds : PickMonster(m)
    \/ \E p \in PersonalityIds : SetPersonality(p)
    \/ DeleteSlot(activeIdx)
    \/ \E v \in {0, 1} : SetMagicItem(v)
    \/ onAnalyze
    \/ \E ok \in BOOLEAN : AnalyzeSettled(ok)

SpecValidate == InitValidate /\ [][NextValidate]_vars

\* the catalog of requirements, in the order of evaluation
ViolationCatalog ==
    <<"v_pickMonster", "v_setPersonality", "v_chooseLegacy", "v_select4Moves",
      "v_pickTalent", "v_max3">>

Violated(slot, key) ==
    CASE key = "v_pickMonster" -> slot.monster_id = 0
      [] key = "v_setPersonality" -> slot.personality_id = 0
      [] key = "v_chooseLegacy" -> slot.legacy_type_id = 0
      [] key = "v_select4Moves" -> \E n \in 1 .. 4 : slot[moveKeys[n]] = 0
      [] key = "v_pickTalent" -> Cardinality(BoostedStats(slot)) = 0
      [] key = "v_max3" -> Cardinality(BoostedStats(slot)) > 3

ExpectedViolations(slot) ==
    LET violated(key) == Violated(slot, key)
    IN  SelectSeq(ViolationCatalog, violated)

OnlyCreatureOfSlot0 ==
    \E m \in MonsterIds : slots = [emptyRoster EXCEPT ![0].monster_id = m]

\* C8: validateSlot returns the violated requirements of the slot and no other, in the
\* order of the catalog (creature, personality, legacy type, moves, no talent boost, too
\* many talent boosts); the last two never occur together; and with only the creature of
\* slot 0 set in an empty roster, slot 0 has [personality, legacy type, moves, no boost].
C8_ValidateSlotOrdered ==
    /\ \A i \in SlotIdx :
           /\ validateSlot(slots[i]) = ExpectedViolations(slots[i])
           /\ ~({"v_pickTalent", "v_max3"} \subseteq Range(validateSlot(slots[i])))
    /\ OnlyCreatureOfSlot0 =>
           validateSlot(slots[0]) =
               <<"v_setPersonality", "v_chooseLegacy", "v_select4Moves", "v_pickTalent">>

\* the creature of slot 0 was picked in an empty roster
C8_Witness ==
    /\ lastOp.op = "pickMonster"
    /\ OnlyCreatureOfSlot0
    /\ Len(validateSlot(slots[0])) = 4

\* C10: a slot's status is 'empty' iff its creature is unset, 'complete' iff its creature
\* is set and it violates no requirement, 'incomplete' iff its creature is set and it
\* violates a requirement.
C10_SlotStatus ==
    \A i \in SlotIdx :
        LET st == statusKey(slots[i])
            hasCreature == slots[i].monster_id # 0
            clean == ExpectedViolations(slots[i]) = <<>>
        IN  /\ st \in {"status_empty", "status_complete", "status_incomplete"}
            /\ (st = "status_empty") <=> ~hasCreature
            /\ (st = "status_complete") <=> (hasCreature /\ clean)
            /\ (st = "status_incomplete") <=> (hasCreature /\ ~clean)

\* a slot without creature whose other fields are set is 'empty', next to a complete slot
C10_Witness ==
    /\ lastOp.op = "setMagicItem"
    /\ slots[0].monster_id = 0 /\ slots[0].personality_id # 0 /\ slots[0].move4_id # 0
    /\ statusKey(slots[0]) = "status_empty"
    /\ statusKey(slots[1]) = "status_complete"

\* the slot has a creature and a legacy type that grants this creature no legacy move
GrantsNoLegacy(slot) ==
    /\ slot.monster_id \in MonsterIds
    /\ slot.legacy_type_id # 0
    /\ GrantedBy(slot, slot.legacy_type_id) = 0

\* creature, personality, legacy type and four moves are set, and 1 to 3 stats are boosted
FieldsComplete(slot) ==
    /\ slot.monster_id # 0 /\ slot.personality_id # 0 /\ slot.legacy_type_id # 0
    /\ \A n \in 1 .. 4 : slot[moveKeys[n]] # 0
    /\ Cardinality(BoostedStats(slot)) \in 1 .. 3

\* C18: for a slot whose legacy type grants its creature no legacy move, validateSlot
\* reports nothing about the legacy type; with creature, personality, legacy type, four
\* moves and 1 to 3 boosts the slot is complete, and with the other slots complete and
\* the magic item set the roster can be analyzed.
C18_LegacyMissingIsNoViolation ==
    /\ \A i \in SlotIdx :
           GrantsNoLegacy(slots[i]) =>
               /\ "v_chooseLegacy" \notin Range(validateSlot(slots[i]))
               /\ FieldsComplete(slots[i]) =>
                      (validateSlot(slots[i]) = <<>> /\ statusKey(slots[i]) = "status_complete")
    /\ ((\A i \in SlotIdx : FieldsComplete(slots[i])) /\ ~unset(magic_item_id)) =>
           canAnalyzeOf(slots, magic_item_id)

\* an analysis request was issued for a roster whose slot 0 has a legacy type that grants
\* its creature no legacy move
C18_Witness ==
    /\ lastOp.op = "analyze.mutate"
    /\ GrantsNoLegacy(slots[0])
    /\ LegacyPositions(slots[0]) = {}
    /\ FieldsComplete(slots[0])

(***************************************************************************)
(* The bottom bar of the builder page: analyze, save and update.           *)
(***************************************************************************)
NameInputs == {<<" ">>, <<"c", " ">>}

NextSubmit ==
    \/ EditInBuilder(1)
    \/ DeleteSlot(activeIdx)
    \/ \E v \in NameInputs : SetName(v)
    \/ \E v \in {0, 1} : SetMagicItem(v)
    \/ onAnalyze
    \/ \E ok \in BOOLEAN : AnalyzeSettled(ok)
    \/ onSaveNew
    \/ onUpdateExisting
    \/ \E l \in lookups, ok \in BOOLEAN : SaveLookupDone(l, ok)
    \/ \E l \in lookups, ok \in BOOLEAN : UpdateLookupDone(l, ok)
    \/ \E ok \in BOOLEAN : CreateSettled(ok)
    \/ \E ok \in BOOLEAN : UpdateSettled(ok)

SpecSubmit == Init /\ [][NextSubmit]_vars

\* the roster is submittable: all 6 slots violate nothing and the magic item is set
Submittable ==
    /\ \A i \in 0 .. 5 : ExpectedViolations(slots[i]) = <<>>
    /\ magic_item_id \in Nat \ {0}

\* the last handler issued a request
RequestIssued ==
    lastOp.op \in {"analyze.mutate", "createTeam.mutate", "updateTeam.mutate"}

\* the last handler was a slot mutation of the slot shown, and the slot has taken its patch
MutationApplied ==
    lastOp.op = "delete" =>
        \A k \in DOMAIN lastOp.patch : slots[activeIdx][k] = lastOp.patch[k]

CanAnalyzeIffSubmittable ==
    canAnalyzeOf(slots, magic_item_id) <=> Submittable

\* C9: canAnalyze is true iff the roster is submittable; a slot mutation is applied
\* whatever the slot violates; and a handler that issues an analyze, create-team or
\* update-team request does so on a submittable roster.
C9_RequestsOnlyWhenSubmittable ==
    /\ CanAnalyzeIffSubmittable
    /\ MutationApplied
    /\ RequestIssued => Submittable

(***************************************************************************)
(* The slot cards of the builder page: select, delete, drag and drop.      *)
(***************************************************************************)
NextCards ==
    \/ \E ti \in TeamIdx : EditInBuilder(ti)
    \/ \E i \in ActiveIdxs : SetActive(i)
    \/ DeleteSlot(activeIdx)
    \/ \E from, to \in SlotIdx : handleDragEnd(from, to)

SpecCards == Init /\ [][NextCards]_vars

\* the roster with the contents of the slots a and b exchanged
Exchanged(s, a, b) ==
    [i \in DOMAIN s |-> IF i = a THEN s[b] ELSE IF i = b THEN s[a] ELSE s[i]]

\* C14: a drop of slot `from` on slot `to` exchanges the complete contents of the two
\* slots and leaves the other four slots unchanged; from = to changes nothing; the same
\* exchange applied again restores the roster.
C14_MoveSlotExchanges ==
    [][lastOp'.op = "dragEnd" =>
        /\ slots' = Exchanged(slots, lastOp'.from, lastOp'.to)
        /\ Exchanged(slots', lastOp'.from, lastOp'.to) = slots]_vars

(***************************************************************************)
(* loadFromTeam on arbitrary teams: no record, fewer than 6, 6, more than  *)
(* 6 records, and records that break the invariants of a slot.             *)
(***************************************************************************)
LoadInputs ==
    {SavedTeams[1],
     SavedTeams[2],
     [id |-> 3, name |-> <<"n", "o", "n", "e">>, magic_item |-> [id |-> 1], user_monsters |-> <<>>],
     [id |-> 4, name |-> <<"l", "o", "n", "g">>, magic_item |-> [id |-> 1],
      user_monsters |-> SavedTeams[1].user_monsters \o
          <<SavedMonster(47, 2, 1, 3, 6, 1, 2, 3, Talent(0, 0, 0, 0, 0, 9))>>],
     [id |-> 5, name |-> <<"o", "d", "d">>, magic_item |-> [id |-> Null],
      user_monsters |-> <<
          SavedMonster(51, 1, 1, 2, 5, 5, 6, 0, Talent(7, 7, 7, 7, 0, 0)),
          SavedMonster(52, 0, 0, 0, 1, 1, 1, 1, Talent(0, 0, 0, 0, 0, 0)),
          SavedMonster(53, 2, 1, 1, 1, 2, 3, 5, Talent(10, 0, 0, 0, 0, 0))>>]}

NextLoad ==
    \/ \E team \in LoadInputs, quick \in BOOLEAN : LoadTeam(team, quick)
    \/ \E i \in ActiveIdxs : SetActive(i)
    \/ DeleteSlot(activeIdx)
    \/ Reset

SpecLoad == Init /\ [][NextLoad]_vars

\* the slot holds the values of the saved record, field for field
HoldsRecord(slot, um) ==
    /\ slot.id = um.id
    /\ slot.monster_id = um.monster.id
    /\ slot.personality_id = um.personality.id
    /\ slot.legacy_type_id = um.legacy_type.id
    /\ \A n \in 1 .. 4 :
           slot[moveKeys[n]] = <<um.move1.id, um.move2.id, um.move3.id, um.move4.id>>[n]
    /\ \A k \in Range(KEYS) : slot.talent[k] = um.talent[k]

\* C15: after loadFromTeam(team) with n records the positions 0..min(n,6)-1 hold the first
\* min(n,6) records in their order, as they are (nothing repaired, nothing refused), and
\* every other position is emptySlot().
C15_LoadMapsInOrder ==
    lastOp.op = "loadFromTeam" =>
        LET recs == lastOp.team.user_monsters
            n == IF Len(recs) < 6 THEN Len(recs) ELSE 6
        IN  /\ DOMAIN slots = 0 .. 5
            /\ \A i \in 0 .. 5 :
                   IF i < n
                   THEN HoldsRecord(slots[i], recs[i + 1]) /\
                        DOMAIN slots[i] = DOMAIN emptySlot /\ DOMAIN slots[i].talent = Range(KEYS)
                   ELSE slots[i] = emptySlot

\* a team of 3 records that break the invariants was loaded as it is
C15_Witness ==
    /\ lastOp.op = "loadFromTeam"
    /\ Len(lastOp.team.user_monsters) = 3
    /\ slots[0].move1_id = slots[0].move2_id /\ slots[0].move4_id = 0
    /\ Cardinality(BoostedStats(slots[0])) = 4
    /\ slots[3] = emptySlot

\* a saved record that satisfies the invariants of a slot
RecordOk(um) ==
    LET slot == slotOfSaved(um)
    IN  /\ ExpectedViolations(slot) = <<>>
        /\ \A n, j \in 1 .. 4 : n # j => slot[moveKeys[n]] # slot[moveKeys[j]]
        /\ Cardinality(LegacyPositions(slot)) <= 1
        /\ \A n \in LegacyPositions(slot) : slot[moveKeys[n]] = GrantedBy(slot, slot.legacy_type_id)

\* the entry of an update payload reproduces the saved record
Reproduces(entry, um) ==
    /\ HoldsRecord(entry, um)
    /\ DOMAIN entry.talent = Range(KEYS)

\* the last handler loaded a team and kept its id: toUpdatePayload() is not null
LoadedForUpdate ==
    lastOp.op = "loadFromTeam" /\ ~unset(teamId)

\* C16 as stated: for a team whose records satisfy the invariants, the user_monsters of
\* toUpdatePayload() after loadFromTeam(team) are the saved records, field for field, in
\* their order, none added and none dropped.
C16_RoundTripAllRecords ==
    (LoadedForUpdate /\ \A j \in DOMAIN lastOp.team.user_monsters :
                            RecordOk(lastOp.team.user_monsters[j])) =>
        LET recs == lastOp.team.user_monsters
            ums == toUpdatePayload(slots, name, magic_item_id).user_monsters
        IN  /\ DOMAIN ums = 0 .. (Len(recs) - 1)
            /\ \A i \in DOMAIN ums : Reproduces(ums[i], recs[i + 1])

\* C16 as amended: the user_monsters of toUpdatePayload() after loadFromTeam(team) are
\* always 6 entries with position = index; the first min(n, 6) reproduce the first
\* min(n, 6) saved records field for field in their order, every further entry is an
\* empty slot (records beyond the sixth are dropped); so the saved records are
\* reproduced with none added or dropped exactly for a team of 6 records.
C16_RoundTripSixEntries ==
    LoadedForUpdate =>
        LET recs == lastOp.team.user_monsters
            n == IF Len(recs) < 6 THEN Len(recs) ELSE 6
            ums == toUpdatePayload(slots, name, magic_item_id).user_monsters
        IN  /\ DOMAIN ums = 0 .. 5
            /\ \A i \in DOMAIN ums :
                   /\ ums[i].position = i
                   /\ IF i < n THEN Reproduces(ums[i], recs[i + 1])
                      ELSE ums[i] = emptySlot @@ [position |-> i]

\* a team of 2 records that satisfy the invariants was loaded: the payload holds the two
\* records and then empty entries
C16_Witness ==
    /\ LoadedForUpdate
    /\ Len(lastOp.team.user_monsters) = 2
    /\ \A j \in DOMAIN lastOp.team.user_monsters : RecordOk(lastOp.team.user_monsters[j])
    /\ toUpdatePayload(slots, name, magic_item_id).user_monsters[1].id = 22
    /\ toUpdatePayload(slots, name, magic_item_id).user_monsters[2].monster_id = 0

(***************************************************************************)
(* Reset of the builder, from any state of the store.                      *)
(***************************************************************************)
NextReset ==
    \/ \E ti \in TeamIdx : EditInBuilder(ti)
    \/ DeleteSlot(activeIdx)
    \/ \E v \in NameInputs : SetName(v)
    \/ \E v \in {0, 1} : SetMagicItem(v)
    \/ onAnalyze
    \/ \E ok \in BOOLEAN : AnalyzeSettled(ok)
    \/ Reset

SpecReset == Init /\ [][NextReset]_vars

\* C17: initially and after reset() the roster is 6 slots with creature, personality,
\* legacy type and the four moves unset, no persisted id and the six talent boosts 0; the
\* name is empty, and there is no magic item, no team id, no analysis, and isAnalyzing
\* is false.
C17_InitialAndResetEmpty ==
    lastOp.op \in {"init", "reset"} =>
        /\ DOMAIN slots = 0 .. 5
        /\ \A i \in 0 .. 5 :
               slots[i] = [id |-> Undefined, monster_id |-> 0, personality_id |-> 0,
                           legacy_type_id |-> 0, move1_id |-> 0, move2_id |-> 0,
                           move3_id |-> 0, move4_id |-> 0,
                           talent |-> [k \in Range(KEYS) |-> 0]]
        /\ name = <<>>
        /\ magic_item_id = Null /\ teamId = Null /\ analysis = Null
        /\ isAnalyzing = FALSE

\* the builder was reset while an analysis request was in flight
C17_Witness ==
    /\ lastOp.op = "reset"
    /\ "analyze" \in inFlight
    /\ sent.payload.magic_item_id = 1
    /\ slots = emptyRoster /\ ~isAnalyzing

(***************************************************************************)
(* The dex moves tab: the move list arrives, the user types in the search  *)
(* box (q), the debounce copies q to dq, and a type and a category are     *)
(* chosen or cleared; every change renders the tab.                        *)
(***************************************************************************)
DexMove(id, type, category, nameEn, nameZh, descEn) ==
    [id |-> id, type |-> type, category |-> category, name |-> nameEn, zhName |-> nameZh,
     description |-> descEn, zhDescription |-> <<>>]

\* the lists the moves query may answer with; the lowest id is not the first entry
DexMoveLists ==
    { <<DexMove(3, 1, "PHY_ATTACK", <<"A", "b">>, <<>>, <<>>),
        DexMove(1, 1, "PHY_ATTACK", <<"a", "B">>, <<>>, <<>>),
        DexMove(2, 0, "defense", <<"c">>, <<"b">>, <<"a", "b">>)>>,
      <<DexMove(4, 2, "", <<"B">>, <<>>, <<"a">>),
        DexMove(2, 0, "defense", <<"c">>, <<"b">>, <<"a", "b">>),
        DexMove(3, 1, "PHY_ATTACK", <<"A", "b">>, <<>>, <<>>)>>,
      <<DexMove(1, 1, "PHY_ATTACK", <<"a", "B">>, <<>>, <<>>)>> }

SearchInputs == {<<>>, <<" ">>, <<"a">>, <<"A", "B">>, <<"b", " ">>}
TypeFilterInputs == {Null, 0, 1, 2}
CatInputs == {"", "PHY_ATTACK", "DEFENSE"}

movesTabUnchanged ==
    UNCHANGED <<slots, teamId, name, magic_item_id, analysis, isAnalyzing, activeIdx, detailQ,
                typesLoaded, movesLoaded, effectDeps, submitVars, teamsPage, notice>>

\* the ["dex-moves"] query answers
DexMovesLoaded(list) ==
    /\ movesTab' = renderMovesTab([movesTab EXCEPT !.moves = list])
    /\ lastOp' = Op("dexMovesLoaded", NoFields)
    /\ movesTabUnchanged

setQ(v) ==
    /\ movesTab' = renderMovesTab([movesTab EXCEPT !.q = v])
    /\ lastOp' = Op("setQ", NoFields)
    /\ movesTabUnchanged

\* useDebounce(q, 200): 200 ms after the last change of q
Debounce ==
    /\ movesTab.dq # movesTab.q
    /\ movesTab' = renderMovesTab([movesTab EXCEPT !.dq = movesTab.q])
    /\ lastOp' = Op("debounce", NoFields)
    /\ movesTabUnchanged

setTypeId(v) ==
    /\ movesTab' = renderMovesTab([movesTab EXCEPT !.typeId = v])
    /\ lastOp' = Op("setTypeId", NoFields)
    /\ movesTabUnchanged

setCat(v) ==
    /\ movesTab' = renderMovesTab([movesTab EXCEPT !.cat = v])
    /\ lastOp' = Op("setCat", NoFields)
    /\ movesTabUnchanged

NextDex ==
    \/ \E list \in DexMoveLists : DexMovesLoaded(list)
    \/ \E v \in SearchInputs : setQ(v)
    \/ Debounce
    \/ \E v \in TypeFilterInputs : setTypeId(v)
    \/ \E v \in CatInputs : setCat(v)

SpecDex == Init /\ [][NextDex]_vars

\* the moves of the loaded list and of the rendered list, and the lowest id of the loaded list
LoadedMoves == {movesTab.moves[i] : i \in 1..Len(movesTab.moves)}
ShownMoves == {movesTab.filtered[i] : i \in 1..Len(movesTab.filtered)}
LowestId == CHOOSE id \in {m.id : m \in LoadedMoves} : \A m \in LoadedMoves : id <= m.id

\* the active filters: a type is chosen, a category is chosen, the search text has a
\* character that is not a blank
TypeFilterActive == movesTab.typeId \notin {Null, 0}
CatFilterActive == movesTab.cat # ""
Keyword == toLowerCase(trim(movesTab.dq))
SearchActive == Keyword # <<>>

MatchesType(m) == m.type # 0 /\ m.type = movesTab.typeId
MatchesCat(m) == toUpperCase(m.category) = movesTab.cat
MatchesSearch(m) ==
    \/ includes(toLowerCase(m.name), Keyword)
    \/ includes(toLowerCase(m.zhName), Keyword)
    \/ includes(toLowerCase(m.description), Keyword)
    \/ includes(toLowerCase(m.zhDescription), Keyword)

MatchesActiveFilters(m) ==
    /\ TypeFilterActive => MatchesType(m)
    /\ CatFilterActive => MatchesCat(m)
    /\ SearchActive => MatchesSearch(m)

\* C19: in the dex moves tab the move with the lowest id of the loaded list is never in
\* the filtered result, whatever the search text, the type filter and the category filter;
\* every other move of the list is in the result iff it matches all the active filters,
\* and the result holds moves of the list only.
C19_FirstMoveHidden ==
    /\ ShownMoves \subseteq LoadedMoves
    /\ \A m \in LoadedMoves :
          m \in ShownMoves <=> (m.id # LowestId /\ MatchesActiveFilters(m))

\* a list is loaded whose lowest-id move matches an active type filter, an active category
\* filter and an active search text, and another move of the list is shown
C19_Witness ==
    /\ TypeFilterActive /\ CatFilterActive /\ SearchActive
    /\ \E m \in LoadedMoves : m.id = LowestId /\ MatchesActiveFilters(m) /\ m \notin ShownMoves
    /\ ShownMoves # {}

(***************************************************************************)
(* The teams list page: the ["teams"] query answers, the user deletes a    *)
(* team or renames one through the dialog, and the backend accepts or      *)
(* rejects each request.  onMutate runs when mutate() is called and        *)
(* onError / onSuccess / onSettled when the request settles.               *)
(***************************************************************************)
MaxMutations == 2

RenameInputs == {<<" ">>, <<"x", " ">>}

teamIds(list) == {list[i].id : i \in 1..Len(list)}

withoutTeam(list, id) ==
    LET keep(t) == t.id # id IN SelectSeq(list, keep)

withName(list, id, nm) ==
    [i \in 1..Len(list) |-> IF list[i].id = id THEN [list[i] EXCEPT !.name = nm] ELSE list[i]]

\* qc.getQueryData(["teams"])
snapshotOf(tp) == [has |-> tp.loaded, data |-> tp.data]

\* onError: if (ctx?.prev) qc.setQueryData(["teams"], ctx.prev)
rollback(tp, prev) ==
    IF prev.has THEN [tp EXCEPT !.loaded = TRUE, !.data = prev.data] ELSE tp

\* qc.cancelQueries({ queryKey: ["teams"] }): the fetch in flight is dropped
cancelQueries(tp) == [tp EXCEPT !.refetching = FALSE, !.response = NoSnapshot]

invalidateQueriesNoRefetch(tp) == tp

\* qc.invalidateQueries({ queryKey: ["teams"] }): the query is stale and is fetched anew,
\* a fetch in flight is dropped for the new one
invalidateQueries(tp) == [tp EXCEPT !.refetching = TRUE, !.response = NoSnapshot]

teamsPageUnchanged ==
    UNCHANGED <<slots, teamId, name, magic_item_id, analysis, isAnalyzing, activeIdx, detailQ,
                typesLoaded, movesLoaded, effectDeps, submitVars, movesTab>>

\* the backend answers the fetch of the ["teams"] query with the teams it holds
TeamsAnswered ==
    /\ teamsPage.refetching /\ ~teamsPage.response.has
    /\ teamsPage' = [teamsPage EXCEPT !.response = [has |-> TRUE, data |-> teamsPage.server]]
    /\ lastOp' = Op("teamsAnswered", NoFields)
    /\ UNCHANGED notice
    /\ teamsPageUnchanged

\* the answer arrives and becomes the query's data
TeamsFetched ==
    /\ teamsPage.refetching /\ teamsPage.response.has
    /\ teamsPage' = [teamsPage EXCEPT !.refetching = FALSE, !.loaded = TRUE,
                                      !.data = teamsPage.response.data,
                                      !.response = NoSnapshot]
    /\ lastOp' = Op("teamsFetched", NoFields)
    /\ UNCHANGED notice
    /\ teamsPageUnchanged

\* the Delete button of a listed team, confirmed: remove.mutate(id) and its onMutate
onDeleteClick(id) ==
    /\ teamsPage.loaded /\ id \in teamIds(teamsPage.data)
    /\ ~teamsPage.remove.pending
    /\ teamsPage.started < MaxMutations
    /\ teamsPage' = [cancelQueries(teamsPage) EXCEPT
            !.remove = [pending |-> TRUE, id |-> id, prev |-> snapshotOf(teamsPage)],
            !.data = withoutTeam(teamsPage.data, id),
            !.started = @ + 1]
    /\ lastOp' = Op("onDeleteClick", NoFields)
    /\ UNCHANGED notice
    /\ teamsPageUnchanged

\* the delete request settles: onError when it failed, then onSettled
RemoveSettled(ok) ==
    /\ teamsPage.remove.pending
    /\ ok => teamsPage.remove.id \in teamIds(teamsPage.server)
    /\ LET rm == teamsPage.remove
           tp == IF ok THEN [teamsPage EXCEPT !.server = withoutTeam(@, rm.id)]
                       ELSE rollback(teamsPage, rm.prev)
       IN  /\ teamsPage' = [invalidateQueries(tp) EXCEPT
                   !.remove.pending = FALSE,
                   !.outcomes = @ \cup {[kind |-> "remove", id |-> rm.id, name |-> <<>>,
                                         ok |-> ok]}]
           /\ lastOp' = [op |-> IF ok THEN "removeSuccess" ELSE "removeError",
                         patch |-> NoFields, prev |-> rm.prev]
    /\ UNCHANGED notice
    /\ teamsPageUnchanged

\* the Rename button of a listed team opens the dialog
onRenameClick(id) ==
    /\ teamsPage.loaded /\ id \in teamIds(teamsPage.data)
    /\ ~teamsPage.rename.pending
    /\ teamsPage' = [teamsPage EXCEPT !.renamingTeam = id]
    /\ lastOp' = Op("onRenameClick", NoFields)
    /\ UNCHANGED notice
    /\ teamsPageUnchanged

\* the dialog's Cancel button
onRenameCancel ==
    /\ teamsPage.renamingTeam # 0
    /\ ~teamsPage.rename.pending
    /\ teamsPage' = [teamsPage EXCEPT !.renamingTeam = 0]
    /\ lastOp' = Op("onRenameCancel", NoFields)
    /\ UNCHANGED notice
    /\ teamsPageUnchanged

\* the dialog's form is submitted with newTeamName: rename.mutate and its onMutate
onRenameSubmit(newTeamName) ==
    /\ teamsPage.renamingTeam # 0
    /\ ~teamsPage.rename.pending
    /\ IF trim(newTeamName) = <<>>
       THEN /\ notice' = "builder.teamNamePlaceholder"
            /\ UNCHANGED teamsPage
       ELSE /\ teamsPage.started < MaxMutations
            /\ teamsPage' = [cancelQueries(teamsPage) EXCEPT
                    !.rename = [pending |-> TRUE, id |-> teamsPage.renamingTeam,
                                name |-> trim(newTeamName), prev |-> snapshotOf(teamsPage)],
                    !.loaded = TRUE,
                    !.data = withName(teamsPage.data, teamsPage.renamingTeam,
                                      trim(newTeamName)),
                    !.started = @ + 1]
            /\ UNCHANGED notice
    /\ lastOp' = Op("onRenameSubmit", NoFields)
    /\ teamsPageUnchanged

\* the rename request settles: onSuccess or onError, then onSettled
RenameSettled(ok) ==
    /\ teamsPage.rename.pending
    /\ ok => teamsPage.rename.id \in teamIds(teamsPage.server)
    /\ LET rn == teamsPage.rename
           tp == IF ok THEN [teamsPage EXCEPT !.server = withName(@, rn.id, rn.name),
                                              !.renamingTeam = 0]
                       ELSE rollback(teamsPage, rn.prev)
       IN  /\ teamsPage' = [invalidateQueries(tp) EXCEPT
                   !.rename.pending = FALSE,
                   !.outcomes = @ \cup {[kind |-> "rename", id |-> rn.id, name |-> rn.name,
                                         ok |-> ok]}]
           /\ lastOp' = [op |-> IF ok THEN "renameSuccess" ELSE "renameError",
                         patch |-> NoFields, prev |-> rn.prev]
    /\ notice' = IF ok THEN notice ELSE "teams.renameFailed"
    /\ teamsPageUnchanged

\* SavedTeamPage of team id: the Delete button, confirmed: del.mutate() and its onMutate
onSavedTeamDelete(id) ==
    /\ id \in teamIds(teamsPage.server)
    /\ ~teamsPage.del.pending
    /\ teamsPage.started < MaxMutations
    /\ teamsPage' = [cancelQueries(teamsPage) EXCEPT
            !.del = [pending |-> TRUE, id |-> id, prev |-> snapshotOf(teamsPage)],
            !.loaded = TRUE,
            !.data = withoutTeam(teamsPage.data, id),
            !.started = @ + 1]
    /\ lastOp' = Op("onSavedTeamDelete", NoFields)
    /\ UNCHANGED notice
    /\ teamsPageUnchanged

\* SavedTeamPage's delete request settles: onError when it failed, then onSettled
DelSettled(ok) ==
    /\ teamsPage.del.pending
    /\ ok => teamsPage.del.id \in teamIds(teamsPage.server)
    /\ LET dl == teamsPage.del
           tp == IF ok THEN [teamsPage EXCEPT !.server = withoutTeam(@, dl.id)]
                       ELSE rollback(teamsPage, dl.prev)
       IN  /\ teamsPage' = [invalidateQueries(tp) EXCEPT
                   !.del.pending = FALSE,
                   !.outcomes = @ \cup {[kind |-> "del", id |-> dl.id, name |-> <<>>,
                                         ok |-> ok]}]
           /\ lastOp' = [op |-> IF ok THEN "delSuccess" ELSE "delError",
                         patch |-> NoFields, prev |-> dl.prev]
    /\ UNCHANGED notice
    /\ teamsPageUnchanged

NextTeams ==
    \/ TeamsAnswered
    \/ TeamsFetched
    \/ \E id \in teamIds(ServerTeams) : onSavedTeamDelete(id)
    \/ \E ok \in BOOLEAN : DelSettled(ok)
    \/ \E id \in teamIds(ServerTeams) : onDeleteClick(id)
    \/ \E ok \in BOOLEAN : RemoveSettled(ok)
    \/ \E id \in teamIds(ServerTeams) : onRenameClick(id)
    \/ onRenameCancel
    \/ \E v \in RenameInputs : onRenameSubmit(v)
    \/ \E ok \in BOOLEAN : RenameSettled(ok)

SpecTeams == Init /\ [][NextTeams]_vars

\* every mutation that was started has settled
AllSettled ==
    ~teamsPage.remove.pending /\ ~teamsPage.rename.pending /\ ~teamsPage.del.pending

\* the cached list shows the optimistic change of the settled mutation o, which the
\* backend does not hold
ShowsOptimisticChangeOf(o) ==
    \/ /\ o.kind = "remove"
       /\ o.id \in teamIds(teamsPage.server)
       /\ o.id \notin teamIds(teamsPage.data)
    \/ /\ o.kind = "rename"
       /\ \E i \in 1..Len(teamsPage.data) :
             teamsPage.data[i].id = o.id /\ teamsPage.data[i].name = o.name
       /\ \A i \in 1..Len(teamsPage.server) :
             teamsPage.server[i].id = o.id => teamsPage.server[i].name # o.name

\* C20: a delete or a rename that fails sets the cached teams list back to the snapshot
\* taken when it started, when there was one; and once every mutation has settled, the
\* cached list shows no optimistic change of a mutation that failed and holds no team
\* whose delete succeeded.
C20_RollbackLeavesCacheConsistent ==
    /\ (lastOp.op \in {"removeError", "renameError"} /\ lastOp.prev.has)
          => teamsPage.data = lastOp.prev.data
    /\ AllSettled =>
          \A o \in teamsPage.outcomes :
             /\ ~o.ok => ~ShowsOptimisticChangeOf(o)
             /\ (o.kind = "remove" /\ o.ok) => o.id \notin teamIds(teamsPage.data)

\* C21: every optimistic mutation of the teams list (delete and rename of the list page,
\* delete of the saved-team page) invalidates the ["teams"] query when it settles, on
\* success and on error alike: once all mutations have settled and no fetch of the query
\* is outstanding, the cached teams list equals the list the backend holds.
C21_SettledAndRefetchedEqualsServer ==
    (AllSettled /\ ~teamsPage.refetching)
        => (teamsPage.loaded /\ teamsPage.data = teamsPage.server)

\* a mutation has failed and another has succeeded, all have settled, the refetch has
\* arrived, and the cached list is the backend's changed list
C21_Witness ==
    /\ AllSettled /\ ~teamsPage.refetching
    /\ \E o \in teamsPage.outcomes : ~o.ok
    /\ \E o \in teamsPage.outcomes : o.ok
    /\ teamsPage.server # ServerTeams
    /\ teamsPage.data = teamsPage.server

(***************************************************************************)
(* The analysis requests of the builder page and of the saved-team page.   *)
(* Both pages read and set the store's isAnalyzing; the Topbar's reset is  *)
(* at hand on every page, and a request goes on after its page is left.    *)
(***************************************************************************)

\* SavedTeamPage of `team`: the Analyze button (disabled while analyze.isPending or
\* isAnalyzing): onAnalyze, analyze.mutate() and its onMutate
SavedTeamAnalyze(team) ==
    /\ ~isAnalyzing /\ "analyzeById" \notin inFlight
    /\ notice' = "none"
    /\ sent' = [kind |-> "analyzeById", id |-> team.id, payload |-> NoFields]
    /\ inFlight' = inFlight \cup {"analyzeById"}
    /\ isAnalyzing' = TRUE
    /\ lastOp' = Op("savedTeam.analyze.mutate", NoFields)
    /\ UNCHANGED <<teamId, analysis, lookups>>
    /\ editorUnchanged

\* SavedTeamPage's analyze mutation settles: onSuccess / onError, then onSettled
SavedTeamAnalyzeSettled(ok) ==
    /\ "analyzeById" \in inFlight
    /\ inFlight' = inFlight \ {"analyzeById"}
    /\ isAnalyzing' = FALSE
    /\ analysis' = IF ok THEN AnalysisData ELSE analysis
    /\ notice' = IF ok THEN "none" ELSE "serverError"
    /\ lastOp' = Op("savedTeam.analyzeSettled", NoFields)
    /\ UNCHANGED <<teamId, lookups, sent>>
    /\ editorUnchanged

NextAnalyze ==
    \/ \E ti \in TeamIdx : EditInBuilder(ti)
    \/ \E i \in ActiveIdxs : SetActive(i)
    \/ DeleteSlot(activeIdx)
    \/ \E v \in {0, 1} : SetMagicItem(v)
    \/ onAnalyze
    \/ \E ok \in BOOLEAN : AnalyzeSettled(ok)
    \/ \E ti \in TeamIdx : SavedTeamAnalyze(SavedTeams[ti])
    \/ \E ok \in BOOLEAN : SavedTeamAnalyzeSettled(ok)
    \/ Reset

SpecAnalyze == Init /\ [][NextAnalyze]_vars

AnalysisRequests == inFlight \cap {"analyze", "analyzeById"}

\* C22: at most one analysis request is in flight at any time, over the builder page and
\* the saved-team page; isAnalyzing is true for as long as one is in flight, and it is
\* false once a request has settled; a click on Analyze while isAnalyzing sends no request.
C22_OneAnalysisInFlight ==
    /\ Cardinality(AnalysisRequests) <= 1
    /\ AnalysisRequests # {} => isAnalyzing
    /\ lastOp.op \in {"analyzeSettled", "savedTeam.analyzeSettled"} => ~isAnalyzing
    /\ lastOp.op \in {"analyze.mutate", "savedTeam.analyze.mutate"} => isAnalyzing

(***************************************************************************)
(* Save and Update of the builder page with the names the checks are       *)
(* about: blank, a name with a blank at its end, the name of a saved team  *)
(* behind a blank, and a name of MaxNameLen + 1 characters.                *)
(***************************************************************************)
LongName == [i \in 1..(MaxNameLen + 1) |-> "d"]

SaveNameInputs == {<<" ">>, <<"c", " ">>, <<" ">> \o SavedTeams[2].name, LongName}

NextSave ==
    \/ EditInBuilder(1)
    \/ \E v \in SaveNameInputs : SetName(v)
    \/ \E v \in {0, 1} : SetMagicItem(v)
    \/ onSaveNew
    \/ onUpdateExisting
    \/ \E l \in lookups, ok \in BOOLEAN : SaveLookupDone(l, ok)
    \/ \E l \in lookups, ok \in BOOLEAN : UpdateLookupDone(l, ok)
    \/ \E ok \in BOOLEAN : CreateSettled(ok)
    \/ \E ok \in BOOLEAN : UpdateSettled(ok)

SpecSave == Init /\ [][NextSave]_vars

\* the name nm is not empty after trimming, is at most 16 characters long after trimming,
\* and is the name of no team of the fetched list other than the team `own`
NameAcceptable(nm, own) ==
    /\ trim(nm) # <<>>
    /\ Len(trim(nm)) <= MaxNameLen
    /\ \A i \in DOMAIN existingTeams :
          existingTeams[i].id # own => existingTeams[i].name # trim(nm)

\* C23: Save issues no create-team request when the team name is empty after trimming,
\* is longer than 16 characters after trimming, or is the name of a team of the fetched
\* teams list; Update issues no update-team request in these cases, but does not count
\* the team being updated as a duplicate.
C23_NoRequestWithBadName ==
    /\ lastOp.op = "createTeam.mutate" => NameAcceptable(sent.payload.name, Null)
    /\ lastOp.op = "updateTeam.mutate" => NameAcceptable(sent.payload.name, sent.id)

(***************************************************************************)
(* Drafts: a team loaded by Quick Build or by "edit copy in builder", then *)
(* saved and updated.                                                      *)
(***************************************************************************)
NextDraft ==
    \/ QuickBuild(1)
    \/ EditCopyInBuilder(1)
    \/ EditInBuilder(1)
    \/ SetName(<<"c">>)
    \/ onSaveNew
    \/ onUpdateExisting
    \/ \E l \in lookups, ok \in BOOLEAN : SaveLookupDone(l, ok)
    \/ \E l \in lookups, ok \in BOOLEAN : UpdateLookupDone(l, ok)
    \/ \E ok \in BOOLEAN : CreateSettled(ok)
    \/ \E ok \in BOOLEAN : UpdateSettled(ok)

SpecDraft == Init /\ [][NextDraft]_vars

\* C24: a team loaded by Quick Build or by "edit copy in builder" is an unsaved draft:
\* after the load teamId is null or 0 and toUpdatePayload() returns null; while teamId is
\* null or 0 no update-team request is issued; and teamId becomes set again only when a
\* create-team request succeeds, which sets it to the new team's id, or when a saved team
\* is loaded for editing.
C24_DraftIsUnsaved ==
    [][ /\ lastOp'.op \in {"quickBuild", "editCopyInBuilder"} =>
              /\ unset(teamId')
              /\ toUpdatePayloadResult(slots', name', magic_item_id', teamId').null
        /\ unset(teamId) => lastOp'.op # "updateTeam.mutate"
        /\ (unset(teamId) /\ ~unset(teamId')) =>
              \/ lastOp'.op = "createSettled" /\ teamId' = createdTeamId
              \/ lastOp'.op = "editInBuilder" ]_vars

\* the copy of team 1 has been saved as a new team, and an update-team request for the
\* new team has been issued
C24_Witness ==
    /\ name = SavedTeams[1].name \o CopySuffix
    /\ lastOp.op = "updateTeam.mutate"
    /\ sent.id = createdTeamId
    /\ teamId = createdTeamId

(***************************************************************************)
(* toPayload() and toUpdatePayload() called on the store as it stands,     *)
(* with rosters loaded from saved teams, edited and reset.                 *)
(***************************************************************************)
storeVars == <<slots, teamId, name, magic_item_id, analysis, isAnalyzing>>

CallToPayload ==
    /\ lastOp' = [op |-> "toPayload", patch |-> NoFields,
                  result |-> toPayloadResult(slots, name, magic_item_id)]
    /\ UNCHANGED <<storeVars, activeIdx, detailQ, typesLoaded, movesLoaded, effectDeps,
                   submitVars, otherPages, notice>>

CallToUpdatePayload ==
    /\ lastOp' = [op |-> "toUpdatePayload", patch |-> NoFields,
                  result |-> toUpdatePayloadResult(slots, name, magic_item_id, teamId)]
    /\ UNCHANGED <<storeVars, activeIdx, detailQ, typesLoaded, movesLoaded, effectDeps,
                   submitVars, otherPages, notice>>

NextPayload ==
    \/ \E team \in LoadInputs, quick \in BOOLEAN : LoadTeam(team, quick)
    \/ \E ti \in TeamIdx : EditCopyInBuilder(ti)
    \/ DeleteSlot(activeIdx)
    \/ \E v \in {0, 1} : SetMagicItem(v)
    \/ Reset
    \/ CallToPayload
    \/ CallToUpdatePayload

SpecPayload == Init /\ [][NextPayload]_vars

\* the fields of a slot but its persisted id
SlotFieldsSent == {"monster_id", "personality_id", "legacy_type_id",
                   "move1_id", "move2_id", "move3_id", "move4_id", "talent"}

\* C25: toPayload() fails and gives no payload when magic_item_id is null; otherwise it
\* returns the name, the item id and exactly 6 user_monsters, the i-th made of the fields
\* of slot i with position i and without the slot's persisted id.  toUpdatePayload()
\* returns null when teamId is unset.  Neither call changes the store.
C25_PayloadsOfTheStore ==
    [][ /\ lastOp'.op = "toPayload" =>
              /\ UNCHANGED storeVars
              /\ IF magic_item_id = Null
                 THEN lastOp'.result.threw /\ lastOp'.result.value = NoFields
                 ELSE /\ ~lastOp'.result.threw
                      /\ LET body == lastOp'.result.value
                         IN  /\ DOMAIN body = {"name", "magic_item_id", "user_monsters"}
                             /\ body.name = name
                             /\ body.magic_item_id = magic_item_id
                             /\ DOMAIN body.user_monsters = 0 .. 5
                             /\ \A i \in 0 .. 5 :
                                   /\ DOMAIN body.user_monsters[i] =
                                         SlotFieldsSent \cup {"position"}
                                   /\ body.user_monsters[i].position = i
                                   /\ \A k \in SlotFieldsSent :
                                         body.user_monsters[i][k] = slots[i][k]
        /\ lastOp'.op = "toUpdatePayload" =>
              /\ UNCHANGED storeVars
              /\ (teamId = Null \/ teamId = 0) => lastOp'.result.null ]_vars

\* toPayload() has returned a payload for a copy loaded with team id 0, whose first slot
\* has a persisted id
C25_Witness ==
    /\ lastOp.op = "toPayload" /\ ~lastOp.result.threw
    /\ teamId = 0 /\ slots[0].id = 11

\* the last handler issued a create-team or an update-team request
SaveRequestIssued == lastOp.op \in {"createTeam.mutate", "updateTeam.mutate"}

\* C26: every create-team or update-team payload that is sent describes a submittable
\* roster (6 slots that violate nothing, and an item) and carries the trimmed name that
\* passed the name checks, also when a slot, the item or the name is edited while the
\* duplicate-name lookup of Save or Update is pending.
C26_PayloadIsWhatWasChecked ==
    SaveRequestIssued =>
        /\ Submittable
        /\ sent.payload.magic_item_id = magic_item_id
        /\ sent.payload.name = trim(sent.payload.name)
        /\ NameAcceptable(sent.payload.name, sent.id)

\* the ids of the saved monsters of the team with id tid; a team created in this session
\* has monsters whose ids the backend assigned and the builder never received
SavedMonsterIdsOf(tid) ==
    UNION { {SavedTeams[ti].user_monsters[k].id : k \in DOMAIN SavedTeams[ti].user_monsters} :
            ti \in {t \in TeamIdx : SavedTeams[t].id = tid} }

\* C27: in every update-team payload each user-monster id that is set is the id of a saved
\* monster of the team being updated.
C27_UpdateIdsBelongToTeam ==
    lastOp.op = "updateTeam.mutate" =>
        \A i \in DOMAIN sent.payload.user_monsters :
            LET id == sent.payload.user_monsters[i].id
            IN  id \notin {Undefined, Null} => id \in SavedMonsterIdsOf(sent.id)

\* the builder has just been reset, or has just loaded a team other than the one the
\* analysis request in flight was sent for
ResetOrLoadedOverRequest ==
    /\ "analyze" \in inFlight /\ sent.kind = "analyze"
    /\ \/ lastOp.op = "reset"
       \/ lastOp.op = "editInBuilder" /\ sent.payload.name # name

\* C28: after reset(), or after loadFromTeam of a different team, the analysis stays as
\* that operation left it until a new analyze request is issued: the response to an
\* analysis request that was in flight when the reset or the load happened does not set
\* the analysis.
C28_StaleResponseIgnored ==
    [][ (ResetOrLoadedOverRequest /\ lastOp'.op = "analyzeSettled")
            => analysis' = analysis ]_vars

====
